---- MODULE Spec2Model ----
(***************************************************************************)
(* ReMD: the fetch orchestrator (fetch_all_files of the base, GitHub and   *)
(* Azure DevOps providers) as a pull-driven generator, and the GitHub      *)
(* provider's HTTP layer (_check_rate_limit, _api_get, fetch_file_content, *)
(* get_default_branch).                                                    *)
(***************************************************************************)
EXTENDS Integers, Sequences, FiniteSets, TLC

(***************************************************************************)
(* Bounds of the model.                                                    *)
(***************************************************************************)
MaxFiles == 2
MaxSize == 2

(***************************************************************************)
(* models.py                                                               *)
(***************************************************************************)
\* FileEntry.content's default, None.
NoContent == "<None>"

Providers == {"base", "github", "azure_devops"}

\* The two concrete providers; each overrides fetch_all_files.
Overrides == {"github", "azure_devops"}

\* The path of the i-th file of a listing.
PathOf(i) == "f" \o ToString(i) \o ".py"

\* FileEntry as list_files creates it (its content is the i-th slot of the
\* variable `content`).
FileEntry == [path : {PathOf(i) : i \in 1..MaxFiles}, size : 0..MaxSize, is_binary : BOOLEAN]

\* The lists of at most MaxFiles entries, the i-th with the i-th path.
FileLists ==
    UNION {{f \in [1..n -> FileEntry] : \A i \in 1..n : f[i].path = PathOf(i)} :
               n \in 0..MaxFiles}

\* The max_file_size arguments: 0 (no limit), or a limit that some size exceeds.
MaxFileSizes == 0..(MaxSize - 1)

\* FetchProgress(total_files=n): the dataclass with its defaults.
FetchProgress(n) ==
    [total_files |-> n, fetched_files |-> 0, skipped_binary |-> 0,
     current_file |-> "", errors |-> <<>>]

(***************************************************************************)
(* What one call of fetch_file_content can do: return a text, raise an     *)
(* ordinary exception with a message, or (GitHub) raise RateLimitError.    *)
(***************************************************************************)
Texts == {"x = 1", ""}

Messages == {"fail 1", "fail 2"}

\* str(RateLimitError(reset_at)), shortened.
RateLimitMessage == "GitHub API rate limit exceeded."

Returned(t) == [kind |-> "return", value |-> t]

Raised(m) == [kind |-> "Exception", value |-> m]

RateLimited == [kind |-> "RateLimitError", value |-> RateLimitMessage]

\* RateLimitError is a GitHubError: only the GitHub provider raises it.
Outcomes(p) ==
    {Returned(t) : t \in Texts} \cup {Raised(m) : m \in Messages}
        \cup (IF p = "github" THEN {RateLimited} ELSE {})

(***************************************************************************)
(* fetch_all_files: the pieces of the loop body.                           *)
(***************************************************************************)
\* `if entry.is_binary:`
IsBinarySkip(entry) == entry.is_binary

\* A size test that also skips a file of exactly max_file_size bytes.
IsSizeSkipInclusive(p, entry, max) == max > 0 /\ entry.size >= max

\* base: `if entry.size > max_file_size > 0:`
\* overrides: `if max_file_size > 0 and entry.size > max_file_size:`
IsSizeSkip(p, entry, max) ==
    IF p = "base"
    THEN entry.size > max /\ max > 0
    ELSE max > 0 /\ entry.size > max

\* f"{entry.path}: {exc}"
FormatError(path, msg) == path \o ": " \o msg

\* Overrides that, like the base class, record the first failure and never retry.
FirstAttemptHandlerNoRetry(p, o) ==
    IF o.kind = "return" THEN "store"
    ELSE IF p = "github" /\ o.kind = "RateLimitError" THEN "reraise"
    ELSE "record"

\* The except clause that takes the first attempt's outcome:
\*   "store"   no exception: entry.content = content
\*   "reraise" `except RateLimitError: raise` (GitHub only)
\*   "retry"   `except Exception as exc:` of the overrides
\*   "record"  `except Exception as exc:` of the base class, which appends to errors
FirstAttemptHandler(p, o) ==
    IF o.kind = "return" THEN "store"
    ELSE IF p = "github" /\ o.kind = "RateLimitError" THEN "reraise"
    ELSE IF p = "base" THEN "record"
    ELSE "retry"

\* A retry whose failure leaves fetch_all_files instead of being recorded.
RetryHandlerPropagate(p, o) ==
    IF o.kind = "return" THEN "store" ELSE "reraise"

\* The inner try of the overrides: `except Exception as retry_exc:` takes every
\* exception, RateLimitError (a subclass of Exception) included.
RetryHandler(p, o) ==
    IF o.kind = "return" THEN "store" ELSE "record"

\* A function that goes on to the next file without waiting for the caller
\* (a loop that collects instead of a generator that yields).
AfterYieldEager == "for"

\* The state a generator is left in by `yield progress`: suspended until the
\* caller's next pull.
AfterYield == "yielded"

(***************************************************************************)
(* State.                                                                  *)
(***************************************************************************)
VARIABLES
    provider,       \* the class whose fetch_all_files runs
    files,          \* the list passed to fetch_all_files
    max_file_size,  \* its max_file_size argument
    content,        \* content[i]: files[i].content
    progress,       \* the FetchProgress object of this run
    pc,             \* where the generator is
    idx,            \* how many entries the for loop has taken
    pulls,          \* how many times the caller has called next() on the generator
    calls,          \* every fetch_file_content call so far: file, attempt, outcome
    snapshots,      \* the value of `progress` at each yield so far
    branch,         \* repo_info.branch, as the GitHub provider's operations see it
    op,             \* the GitHub provider operation that ran last
    gets,           \* the GET requests that operation issued, with their responses
    result,         \* what that operation returned or raised
    url,            \* the text typed into the "Repository URL" field
    repo_info,      \* the RepoInfo's fields other than branch
    markdown,       \* the parts list of render_markdown
    tree_paths,     \* the argument of a build_tree call
    tree_lines,     \* the lines of the text it returned
    filter_patterns,\* the list given to validate_patterns and compile_patterns
    filter_errors,  \* what validate_patterns did with it
    path_patterns,  \* what compile_patterns did with it
    file_path,      \* the path given to matches_any_pattern
    matched,        \* what matches_any_pattern did with it
    ext_path,       \* the path given to is_binary_by_extension
    ext_binary,     \* what is_binary_by_extension did with it
    clock,          \* time.time(), in whole seconds since the server started
    _SHUTDOWN_REGISTERED, \* the module global of app.py
    reruns,         \* where each run of the page is in _register_shutdown_route
    last_heartbeat, \* the closure variable of each registration that got as far
    watchdog,       \* the _watchdog thread of each registration that started one
    heard,          \* how many /_heartbeat requests have been received
    process         \* "running", or what terminated the server process

\* The state of a fetch_all_files run.
run == <<provider, files, max_file_size, content, progress, pc, idx, pulls, calls, snapshots>>

\* The state the GitHub provider's operations work on.
hub == <<branch, op, gets, result>>

\* What _run_conversion holds besides: the URL, the RepoInfo parsed from it,
\* the rendered document.
app == <<url, repo_info, markdown>>

\* The arguments and results of the functions called on their own.
tree_io == <<tree_paths, tree_lines>>

filter_io == <<filter_patterns, filter_errors, path_patterns, file_path, matched>>

binary_io == <<ext_path, ext_binary>>

\* The server process as _register_shutdown_route sees it.
shutdown_io == <<clock, _SHUTDOWN_REGISTERED, reruns, last_heartbeat, watchdog, heard, process>>

lib == <<tree_io, filter_io, binary_io, shutdown_io>>

vars == <<run, hub, app, lib>>

\* RepoInfo.branch's default, None.
NoBranch == "<None>"

\* No GitHub operation has run.
HubIdle ==
    /\ branch = NoBranch
    /\ op = "none"
    /\ gets = <<>>
    /\ result = [kind |-> "none", text |-> "", reset_at |-> 0, files |-> <<>>]

\* RepoInfo(provider, owner, repo, project=None, api_host="github.com",
\* raw_url): the dataclass without its branch field, which is the variable
\* `branch`.
RepoInfo(p, owner, repo, project, raw_url) ==
    [provider |-> p, owner |-> owner, repo |-> repo, project |-> project,
     api_host |-> "github.com", raw_url |-> raw_url]

\* RepoInfo.project's default, None.
NoProject == "<None>"

\* The RepoInfo of https://github.com/o/r.
GitHubRepo == RepoInfo("github", "o", "r", NoProject, "https://github.com/o/r")

\* The URL has been parsed already and nothing is rendered yet.
AppIdle ==
    /\ url = <<>>
    /\ repo_info = GitHubRepo
    /\ markdown = <<>>

\* No function has been called on its own.
NotCalled == [kind |-> "none", value |-> <<>>]

TreeIdle ==
    /\ tree_paths = <<>>
    /\ tree_lines = <<>>

FilterIdle ==
    /\ filter_patterns = <<>>
    /\ filter_errors = NotCalled
    /\ path_patterns = NotCalled
    /\ file_path = <<>>
    /\ matched = NotCalled

BinaryIdle ==
    /\ ext_path = <<>>
    /\ ext_binary = NotCalled

\* The page has not been run: nothing is registered.
ShutdownIdle ==
    /\ clock = 0
    /\ _SHUTDOWN_REGISTERED = FALSE
    /\ reruns = <<>>
    /\ last_heartbeat = <<>>
    /\ watchdog = <<>>
    /\ heard = 0
    /\ process = "running"

LibIdle ==
    /\ TreeIdle
    /\ FilterIdle
    /\ BinaryIdle
    /\ ShutdownIdle

\* A call of fetch_all_files(repo_info, files, max_file_size) on a fresh
\* listing: the generator object exists, its body has not started.
Init ==
    /\ provider \in Providers
    /\ files \in FileLists
    /\ max_file_size \in MaxFileSizes
    /\ content = [i \in 1..Len(files) |-> NoContent]
    /\ progress = FetchProgress(0)
    /\ pc = "created"
    /\ idx = 0
    /\ pulls = 0
    /\ calls = <<>>
    /\ snapshots = <<>>
    /\ HubIdle
    /\ AppIdle
    /\ LibIdle

entry == files[idx + 1]

\* A loop body that forgets to record the current file.
WithCurrentUnset(p, e) == p

\* `progress.current_file = entry.path`
WithCurrent(p, e) == [p EXCEPT !.current_file = e.path]

\* A skip branch that forgets `progress.fetched_files += 1`.
CountSkippedOnly(p) == [p EXCEPT !.skipped_binary = @ + 1]

\* `progress.skipped_binary += 1; progress.fetched_files += 1`
CountSkipped(p) ==
    [p EXCEPT !.skipped_binary = @ + 1, !.fetched_files = @ + 1]

\* `progress.fetched_files += 1` after the try statement
CountFetched(p) == [p EXCEPT !.fetched_files = @ + 1]

\* A handler that formats `exc`, the first attempt's exception (the last
\* call logged before the retry), instead of `retry_exc`.
RecordErrorFirst(p, e, o) ==
    [p EXCEPT !.errors =
        Append(@, FormatError(e.path,
                      IF calls = <<>> THEN o.value ELSE calls[Len(calls)].outcome.value))]

\* `progress.errors.append(f"{entry.path}: {retry_exc}")`
RecordError(p, e, o) == [p EXCEPT !.errors = Append(@, FormatError(e.path, o.value))]

\* `yield progress`: the caller receives the object; the generator suspends.
Yield(p) ==
    /\ progress' = p
    /\ snapshots' = Append(snapshots, p)
    /\ pc' = AfterYield

\* The caller's next(): the first one starts the body
\* (`progress = FetchProgress(total_files=len(files))`), a later one resumes
\* after the yield (`continue` / end of the loop body).
Pull ==
    /\ pc \in {"created", "yielded"}
    /\ pulls' = pulls + 1
    /\ pc' = "for"
    /\ progress' = IF pc = "created" THEN FetchProgress(Len(files)) ELSE progress
    /\ UNCHANGED <<provider, files, max_file_size, content, idx, calls, snapshots, hub, app, lib>>

\* `for entry in files:` is exhausted: the generator returns (StopIteration).
Exhausted ==
    /\ pc = "for"
    /\ idx = Len(files)
    /\ pc' = "done"
    /\ UNCHANGED <<provider, files, max_file_size, content, progress, idx, pulls, calls, snapshots, hub, app, lib>>

\* A binary branch without its `continue`: the size branch runs too and counts
\* the same file again.
SkipBinaryNoContinue ==
    /\ pc = "for"
    /\ idx < Len(files)
    /\ IsBinarySkip(entry)
    /\ idx' = idx + 1
    /\ Yield(IF IsSizeSkip(provider, entry, max_file_size)
             THEN CountSkipped(CountSkipped(WithCurrent(progress, entry)))
             ELSE CountSkipped(WithCurrent(progress, entry)))
    /\ UNCHANGED <<provider, files, max_file_size, content, pulls, calls, hub, app, lib>>

\* The binary branch of the loop body.
SkipBinary ==
    /\ pc = "for"
    /\ idx < Len(files)
    /\ IsBinarySkip(entry)
    /\ idx' = idx + 1
    /\ Yield(CountSkipped(WithCurrent(progress, entry)))
    /\ UNCHANGED <<provider, files, max_file_size, content, pulls, calls, hub, app, lib>>

\* The size branch of the loop body.
SkipLarge ==
    /\ pc = "for"
    /\ idx < Len(files)
    /\ ~IsBinarySkip(entry)
    /\ IsSizeSkip(provider, entry, max_file_size)
    /\ idx' = idx + 1
    /\ Yield(CountSkipped(WithCurrent(progress, entry)))
    /\ UNCHANGED <<provider, files, max_file_size, content, pulls, calls, hub, app, lib>>

\* The try statement: the first fetch_file_content call and the clause that
\* takes its outcome.
FirstAttempt ==
    /\ pc = "for"
    /\ idx < Len(files)
    /\ ~IsBinarySkip(entry)
    /\ ~IsSizeSkip(provider, entry, max_file_size)
    /\ \E o \in Outcomes(provider) :
        LET h == FirstAttemptHandler(provider, o)
            p == WithCurrent(progress, entry)
        IN  /\ calls' = Append(calls, [file |-> idx + 1, attempt |-> 1, outcome |-> o])
            /\ idx' = idx + 1
            /\ content' = IF h = "store" THEN [content EXCEPT ![idx + 1] = o.value] ELSE content
            /\ CASE h = "store"   -> Yield(CountFetched(p))
                 [] h = "record"  -> Yield(CountFetched(RecordError(p, entry, o)))
                 [] h = "retry"   -> progress' = p /\ pc' = "retry" /\ UNCHANGED snapshots
                 [] h = "reraise" -> progress' = p /\ pc' = "raised" /\ UNCHANGED snapshots
    /\ UNCHANGED <<provider, files, max_file_size, pulls, hub, app, lib>>

\* `# Retry once`: the second fetch_file_content call, inside the handler of
\* the first, and the clause that takes its outcome; then the statements
\* after the try statement.
Retry ==
    /\ pc = "retry"
    /\ \E o \in Outcomes(provider) :
        LET h == RetryHandler(provider, o)
            e == files[idx]
        IN  /\ calls' = Append(calls, [file |-> idx, attempt |-> 2, outcome |-> o])
            /\ content' = IF h = "store" THEN [content EXCEPT ![idx] = o.value] ELSE content
            /\ CASE h = "store"   -> Yield(CountFetched(progress))
                 [] h = "record"  -> Yield(CountFetched(RecordError(progress, e, o)))
                 [] h = "reraise" -> pc' = "raised" /\ UNCHANGED <<progress, snapshots>>
    /\ UNCHANGED <<provider, files, max_file_size, idx, pulls, hub, app, lib>>

Next == Pull \/ Exhausted \/ SkipBinary \/ SkipLarge \/ FirstAttempt \/ Retry

Spec == Init /\ [][Next]_vars

(***************************************************************************)
(* file_filter.py: is_binary_by_extension.  A path is a sequence of        *)
(* characters.                                                             *)
(***************************************************************************)
BINARY_EXTENSIONS ==
    {<<".", "p", "n", "g">>,
     <<".", "j", "p", "g">>,
     <<".", "j", "p", "e", "g">>,
     <<".", "g", "i", "f">>,
     <<".", "b", "m", "p">>,
     <<".", "i", "c", "o">>,
     <<".", "s", "v", "g">>,
     <<".", "w", "e", "b", "p">>,
     <<".", "t", "i", "f", "f">>,
     <<".", "e", "x", "e">>,
     <<".", "d", "l", "l">>,
     <<".", "s", "o">>,
     <<".", "d", "y", "l", "i", "b">>,
     <<".", "o">>,
     <<".", "o", "b", "j">>,
     <<".", "c", "l", "a", "s", "s">>,
     <<".", "p", "y", "c">>,
     <<".", "p", "y", "o">>,
     <<".", "z", "i", "p">>,
     <<".", "t", "a", "r">>,
     <<".", "g", "z">>,
     <<".", "b", "z", "2">>,
     <<".", "x", "z">>,
     <<".", "7", "z">>,
     <<".", "r", "a", "r">>,
     <<".", "j", "a", "r">>,
     <<".", "w", "a", "r">>,
     <<".", "m", "p", "3">>,
     <<".", "m", "p", "4">>,
     <<".", "a", "v", "i">>,
     <<".", "m", "o", "v">>,
     <<".", "w", "a", "v">>,
     <<".", "f", "l", "a", "c">>,
     <<".", "o", "g", "g">>,
     <<".", "m", "k", "v">>,
     <<".", "w", "e", "b", "m">>,
     <<".", "t", "t", "f">>,
     <<".", "o", "t", "f">>,
     <<".", "w", "o", "f", "f">>,
     <<".", "w", "o", "f", "f", "2">>,
     <<".", "e", "o", "t">>,
     <<".", "p", "d", "f">>,
     <<".", "d", "o", "c">>,
     <<".", "d", "o", "c", "x">>,
     <<".", "x", "l", "s">>,
     <<".", "x", "l", "s", "x">>,
     <<".", "p", "p", "t">>,
     <<".", "p", "p", "t", "x">>,
     <<".", "d", "b">>,
     <<".", "s", "q", "l", "i", "t", "e">>,
     <<".", "s", "q", "l", "i", "t", "e", "3">>,
     <<".", "b", "i", "n">>,
     <<".", "d", "a", "t">>,
     <<".", "l", "o", "c", "k">>,
     <<".", "D", "S", "_", "S", "t", "o", "r", "e">>}

UpperCase == <<"A", "B", "C", "D", "E", "F", "G", "H", "I", "J", "K", "L", "M",
               "N", "O", "P", "Q", "R", "S", "T", "U", "V", "W", "X", "Y", "Z">>

LowerCase == <<"a", "b", "c", "d", "e", "f", "g", "h", "i", "j", "k", "l", "m",
               "n", "o", "p", "q", "r", "s", "t", "u", "v", "w", "x", "y", "z">>

\* str.lower(), one character at a time.
LowerChar(c) ==
    IF \E i \in DOMAIN UpperCase : UpperCase[i] = c
    THEN LowerCase[CHOOSE i \in DOMAIN UpperCase : UpperCase[i] = c]
    ELSE c

Lower(s) == [i \in DOMAIN s |-> LowerChar(s[i])]

\* path.rfind("."), 1-based; 0 for Python's -1.
RFindDot(path) ==
    IF \E i \in DOMAIN path : path[i] = "."
    THEN CHOOSE i \in DOMAIN path :
            path[i] = "." /\ \A j \in DOMAIN path : path[j] = "." => j <= i
    ELSE 0

is_binary_by_extension(path) ==
    LET dot_pos == RFindDot(path)
    IN  IF dot_pos = 0
        THEN FALSE
        ELSE Lower(SubSeq(path, dot_pos, Len(path))) \in BINARY_EXTENSIONS

(***************************************************************************)
(* providers/github.py: responses.                                         *)
(***************************************************************************)
\* Bounds: the items of a tree response, and of a subdirectory's response.
MaxTreeItems == 2
MaxSubItems == 1

\* A header the response does not carry.
Absent == <<"<absent>">>

Digits == <<"0", "1", "2", "3", "4", "5", "6", "7", "8", "9">>

DigitValue(c) == (CHOOSE i \in DOMAIN Digits : Digits[i] = c) - 1

\* int(s) of a string of decimal digits.
RECURSIVE IntOf(_)
IntOf(s) ==
    IF s = <<>>
    THEN 0
    ELSE 10 * IntOf(SubSeq(s, 1, Len(s) - 1)) + DigitValue(s[Len(s)])

Statuses == {200, 401, 403, 404, 500}

\* X-RateLimit-Remaining and X-RateLimit-Reset as a response may carry them.
RateLimitHeaders ==
    {[remaining |-> Absent, reset |-> Absent],
     [remaining |-> <<"0">>, reset |-> Absent],
     [remaining |-> <<"0">>, reset |-> <<"9", "9">>],
     [remaining |-> <<"0", "0">>, reset |-> <<"9", "9">>],
     [remaining |-> <<"1", "0">>, reset |-> <<"9", "9">>]}

\* The parts of a body that the provider reads: resp.text of the raw
\* endpoint, and the keys of resp.json() of the API endpoints.
EmptyBody ==
    [text |-> "", default_branch |-> "", truncated |-> FALSE, tree |-> <<>>,
     encoding |-> "", content |-> "", defaultBranch |-> Absent, value |-> <<>>]

\* session.get raised requests.RequestException: there is no response.
TransportFailure ==
    [failed |-> TRUE, status |-> 0, remaining |-> Absent, reset |-> Absent,
     body |-> EmptyBody]

\* The responses whose 2xx body is one of `bodies`; other statuses carry an
\* error document.
Responses(bodies) ==
    {[failed |-> FALSE, status |-> st, remaining |-> h.remaining, reset |-> h.reset,
      body |-> b] :
        st \in Statuses \ {200}, h \in RateLimitHeaders, b \in {EmptyBody}}
    \cup
    {[failed |-> FALSE, status |-> 200, remaining |-> h.remaining, reset |-> h.reset,
      body |-> b] :
        h \in RateLimitHeaders, b \in bodies}
    \cup {TransportFailure}

RawResponses == Responses({[EmptyBody EXCEPT !.text = "x = 1"]})

RepoResponses == Responses({[EmptyBody EXCEPT !.default_branch = "main"]})

\* base64.b64decode(content).decode("utf-8", errors="replace") of the
\* payloads used here: "x = 1", and the single byte 0xFF, which is not UTF-8
\* and decodes to U+FFFD.
Base64Text(payload) ==
    CASE payload = "eCA9IDE=" -> "x = 1"
      [] payload = "/w=="     -> "<U+FFFD>"

ContentsResponses ==
    Responses({[EmptyBody EXCEPT !.encoding = "base64", !.content = "eCA9IDE="],
               [EmptyBody EXCEPT !.encoding = "base64", !.content = "/w=="],
               [EmptyBody EXCEPT !.encoding = "none", !.content = "plain"],
               EmptyBody})

\* Items of a git tree: a blob is a file, a tree a directory, a commit a
\* submodule.
Item(type, path, size, sha) == [type |-> type, path |-> path, size |-> size, sha |-> sha]

RootItems ==
    {Item("blob", <<"a", ".", "m", "d">>, 1, "b1"),
     Item("blob", <<"i", ".", "P", "N", "G">>, 2, "b2"),
     Item("blob", <<"s", "r", "c", "/", "m", ".", "p", "y">>, 1, "b3"),
     Item("tree", <<"s", "r", "c">>, 0, "t1"),
     Item("tree", <<"l", "i", "b">>, 0, "t2"),
     Item("commit", <<"e", "x", "t">>, 0, "c1")}

\* What `GET /git/trees/<sha of a directory>` lists: paths relative to that
\* directory.
SubItems ==
    {Item("blob", <<"m", ".", "p", "y">>, 1, "b3"),
     Item("tree", <<"p", "k", "g">>, 0, "t3")}

\* The sequences of at most n different items of pool.
Listings(pool, n) ==
    UNION {{s \in [1..k -> pool] : \A i, j \in 1..k : i # j => s[i] # s[j]} : k \in 0..n}

TreeResponses ==
    Responses({[EmptyBody EXCEPT !.truncated = t, !.tree = l] :
                   t \in BOOLEAN, l \in Listings(RootItems, MaxTreeItems)})

SubtreeResponses ==
    Responses({[EmptyBody EXCEPT !.tree = l] : l \in Listings(SubItems, MaxSubItems)})

(***************************************************************************)
(* providers/github.py: _check_rate_limit, _api_get.                       *)
(***************************************************************************)
\* What a call returns or raises: kind is "return" or the exception's class.
Outcome(kind, text, reset_at, body) ==
    [kind |-> kind, text |-> text, reset_at |-> reset_at, body |-> body]

\* _check_rate_limit raises RateLimitError(reset_at) or returns None.
_check_rate_limit(response) ==
    IF response.remaining # Absent /\ IntOf(response.remaining) = 0
    THEN Outcome("RateLimitError", RateLimitMessage,
                 IF response.reset = Absent THEN 0 ELSE IntOf(response.reset), EmptyBody)
    ELSE Outcome("return", "", 0, EmptyBody)

\* The status tests of _api_get after the rate-limit check.
StatusOutcome(resp) ==
    CASE resp.status = 404 -> Outcome("GitHubError", "Repository not found.", 0, EmptyBody)
      [] resp.status = 401 -> Outcome("GitHubError", "Authentication failed.", 0, EmptyBody)
      [] resp.status = 403 -> Outcome("GitHubError", "Access denied.", 0, EmptyBody)
      [] resp.status \notin {401, 403, 404} /\ resp.status >= 400 ->
            Outcome("HTTPError", "raise_for_status", 0, EmptyBody)
      [] OTHER -> Outcome("return", "", 0, resp.body)

\* An _api_get that maps the status before it looks at the rate-limit headers.
ApiGetStatusFirst(resp) ==
    IF resp.failed
    THEN Outcome("RequestException", "transport", 0, EmptyBody)
    ELSE IF StatusOutcome(resp).kind # "return"
         THEN StatusOutcome(resp)
         ELSE IF _check_rate_limit(resp).kind # "return"
              THEN _check_rate_limit(resp)
              ELSE StatusOutcome(resp)

\* _api_get(path, params), given what session.get does.
_api_get(resp) ==
    IF resp.failed
    THEN Outcome("RequestException", "transport", 0, EmptyBody)
    ELSE IF _check_rate_limit(resp).kind # "return"
         THEN _check_rate_limit(resp)
         ELSE StatusOutcome(resp)

(***************************************************************************)
(* providers/github.py: get_default_branch, list_files,                    *)
(* fetch_file_content.  One action runs one operation from its first       *)
(* request to its return or raise; the responses are the inputs.           *)
(***************************************************************************)
\* The operation returns: a text (a branch name, a file's content) or a list
\* of FileEntry.
Return(text, fs) == [kind |-> "return", text |-> text, reset_at |-> 0, files |-> fs]

\* The exception of outcome o leaves the operation.
Raise(o) == [kind |-> o.kind, text |-> o.text, reset_at |-> o.reset_at, files |-> <<>>]

\* A GET as logged: the endpoint, the ref or sha asked for, the response, and
\* what the call made of it (session.get for the raw endpoint, _api_get for
\* the others).
Request(endpoint, at, resp) ==
    [endpoint |-> endpoint, at |-> at, resp |-> resp,
     raised |-> IF endpoint = "raw"
                THEN (IF resp.failed THEN "RequestException" ELSE "return")
                ELSE _api_get(resp).kind,
     reset_at |-> IF endpoint = "raw" THEN 0 ELSE _api_get(resp).reset_at]

\* `branch = repo_info.branch or "main"`
BranchOrMain == IF branch = NoBranch THEN "main" ELSE branch

\* The FileEntry made of a tree item (language_hint is left out).
EntryOf(item) ==
    [path |-> item.path, size |-> item.size, is_binary |-> is_binary_by_extension(item.path)]

\* The loop over data["tree"] that keeps the blobs.
Blobs(tree) ==
    LET kept == SelectSeq(tree, LAMBDA item : item.type = "blob")
    IN  [i \in DOMAIN kept |-> EntryOf(kept[i])]

\* dirs_to_visit: the tree-typed items of the truncated response.
DirsToVisit(tree) == SelectSeq(tree, LAMBDA item : item.type = "tree")

\* `for sha in dirs_to_visit:` from the i-th directory on, subs[i] being the
\* response to its request: the blobs of a response that _api_get accepts;
\* `except Exception: continue` for any other.
\* A walk that gives up at the first subdirectory whose request fails.
RECURSIVE WalkFilesStopAtFailure(_, _)
WalkFilesStopAtFailure(subs, i) ==
    IF i > Len(subs) \/ _api_get(subs[i]).kind # "return"
    THEN <<>>
    ELSE Blobs(_api_get(subs[i]).body.tree) \o WalkFilesStopAtFailure(subs, i + 1)

RECURSIVE WalkFiles(_, _)
WalkFiles(subs, i) ==
    IF i > Len(subs)
    THEN <<>>
    ELSE (IF _api_get(subs[i]).kind = "return"
          THEN Blobs(_api_get(subs[i]).body.tree)
          ELSE <<>>) \o WalkFiles(subs, i + 1)

\* `data["content"]` decoded when the encoding is base64, else data.get("content", "").
DecodeContents(body) ==
    IF body.encoding = "base64" THEN Base64Text(body.content) ELSE body.content

\* A RepoInfo from the URL parser, with or without a branch; no operation has run.
InitGitHub ==
    /\ provider = "github"
    /\ files = <<>>
    /\ max_file_size = 0
    /\ content = <<>>
    /\ progress = FetchProgress(0)
    /\ pc = "created"
    /\ idx = 0
    /\ pulls = 0
    /\ calls = <<>>
    /\ snapshots = <<>>
    /\ branch \in {NoBranch, "dev"}
    /\ op = "none"
    /\ gets = <<>>
    /\ result = [kind |-> "none", text |-> "", reset_at |-> 0, files |-> <<>>]
    /\ AppIdle
    /\ LibIdle

\* The caller has taken what the last operation returned or raised; of its
\* effects only repo_info.branch remains, and the provider can be called again.
TakeResult ==
    /\ op # "none"
    /\ op' = "none"
    /\ gets' = <<>>
    /\ result' = [kind |-> "none", text |-> "", reset_at |-> 0, files |-> <<>>]
    /\ UNCHANGED <<branch, run, app, lib>>

get_default_branch ==
    /\ op = "none"
    /\ \E r \in RepoResponses :
        LET o == _api_get(r)
        IN  /\ op' = "get_default_branch"
            /\ gets' = <<Request("repo", "", r)>>
            /\ result' = IF o.kind = "return"
                         THEN Return(o.body.default_branch, <<>>)
                         ELSE Raise(o)
            /\ UNCHANGED <<branch, run, app, lib>>

\* A fetch_file_content that asks the contents API as well when the raw
\* request returned 200.
FetchFileContentBothEndpoints ==
    /\ op = "none"
    /\ \E raw \in RawResponses, r \in ContentsResponses :
        LET o == _api_get(r)
        IN  /\ op' = "fetch_file_content"
            /\ gets' = <<Request("raw", BranchOrMain, raw),
                         Request("contents", BranchOrMain, r)>>
            /\ result' = IF ~raw.failed /\ raw.status = 200
                         THEN Return(raw.body.text, <<>>)
                         ELSE IF o.kind = "return"
                              THEN Return(DecodeContents(o.body), <<>>)
                              ELSE Raise(o)
    /\ UNCHANGED <<branch, run, app, lib>>

fetch_file_content ==
    /\ op = "none"
    /\ \E raw \in RawResponses :
        /\ op' = "fetch_file_content"
        /\ IF ~raw.failed /\ raw.status = 200
           THEN /\ gets' = <<Request("raw", BranchOrMain, raw)>>
                /\ result' = Return(raw.body.text, <<>>)
           ELSE \E r \in ContentsResponses :
                    LET o == _api_get(r)
                    IN  /\ gets' = <<Request("raw", BranchOrMain, raw),
                                     Request("contents", BranchOrMain, r)>>
                        /\ result' = IF o.kind = "return"
                                     THEN Return(DecodeContents(o.body), <<>>)
                                     ELSE Raise(o)
        /\ UNCHANGED <<branch, run, app, lib>>

\* list_files, _list_files_non_recursive included.  r1 answers the
\* get_default_branch request, which is made only when the branch is absent.
list_files ==
    /\ op = "none"
    /\ \E r1 \in (IF branch = NoBranch THEN RepoResponses ELSE {TransportFailure}) :
        LET resolve == branch = NoBranch
            o1 == _api_get(r1)
            g1 == IF resolve THEN <<Request("repo", "", r1)>> ELSE <<>>
        IN  /\ op' = "list_files"
            /\ UNCHANGED <<run, app, lib>>
            /\ IF resolve /\ o1.kind # "return"
               THEN /\ gets' = g1
                    /\ result' = Raise(o1)
                    /\ branch' = branch
               ELSE LET b == IF resolve THEN o1.body.default_branch ELSE branch
                    IN  /\ branch' = b
                        /\ \E r2 \in TreeResponses :
                            LET o2 == _api_get(r2)
                                g2 == Append(g1, Request("tree", b, r2))
                                dirs == DirsToVisit(o2.body.tree)
                            IN  IF o2.kind # "return"
                                THEN /\ gets' = g2
                                     /\ result' = Raise(o2)
                                ELSE IF ~o2.body.truncated
                                THEN /\ gets' = g2
                                     /\ result' = Return("", Blobs(o2.body.tree))
                                ELSE \E subs \in [1..Len(dirs) -> SubtreeResponses] :
                                     /\ gets' = g2 \o [i \in 1..Len(dirs) |->
                                                  Request("subtree", dirs[i].sha, subs[i])]
                                     /\ result' = Return("", Blobs(o2.body.tree)
                                                                \o WalkFiles(subs, 1))

NextGitHub == fetch_file_content \/ get_default_branch \/ list_files \/ TakeResult

SpecGitHub == InitGitHub /\ [][NextGitHub]_vars

(***************************************************************************)
(* providers/azure_devops.py: responses.                                   *)
(***************************************************************************)
\* The string of a sequence of characters.
RECURSIVE Str(_)
Str(cs) == IF cs = <<>> THEN "" ELSE cs[1] \o Str(Tail(cs))

\* s.removeprefix(prefix)
RemovePrefix(s, prefix) ==
    IF Len(s) >= Len(prefix) /\ SubSeq(s, 1, Len(prefix)) = prefix
    THEN SubSeq(s, Len(prefix) + 1, Len(s))
    ELSE s

\* s.lstrip("/")
RECURSIVE LStripSlash(_)
LStripSlash(s) ==
    IF s # <<>> /\ s[1] = "/" THEN LStripSlash(Tail(s)) ELSE s

\* The Azure DevOps API sends no rate-limit headers that the provider reads.
AzureResponses(bodies) ==
    {[failed |-> FALSE, status |-> st, remaining |-> Absent, reset |-> Absent,
      body |-> b] :
        st \in Statuses \ {200}, b \in {EmptyBody}}
    \cup
    {[failed |-> FALSE, status |-> 200, remaining |-> Absent, reset |-> Absent,
      body |-> b] :
        b \in bodies}
    \cup {TransportFailure}

\* The repository document: defaultBranch is a ref name, or is missing.
AzureRepoResponses ==
    AzureResponses({[EmptyBody EXCEPT !.defaultBranch = d] :
                        d \in {Absent, <<"r", "e", "f", "s", "/", "h", "e", "a", "d", "s", "/", "t", "r", "u", "n", "k">>, <<"t", "r", "u", "n", "k">>}})

\* An element of the items document's "value".  isFolder and
\* contentMetadata.isBinary are "true", "false", or "absent" when the key is
\* missing; path is Absent when the key is missing.
AzureItem(path, isFolder, isBinary, size) ==
    [path |-> path, isFolder |-> isFolder, isBinary |-> isBinary, size |-> size]

AzureItems ==
    {AzureItem(<<"/", "s", "r", "c">>, "true", "absent", 0),
     AzureItem(<<"/">>, "true", "absent", 0),
     AzureItem(<<"/">>, "false", "absent", 0),
     AzureItem(Absent, "absent", "absent", 0),
     AzureItem(<<"/", "a", ".", "m", "d">>, "false", "absent", 1),
     AzureItem(<<"s", "r", "c", "/", "m", ".", "p", "y">>, "absent", "false", 1),
     AzureItem(<<"/", "i", ".", "d", "a", "t">>, "false", "true", 2),
     AzureItem(<<"/", "/", "i", ".", "P", "N", "G">>, "false", "false", 2),
     AzureItem(<<"/", "d", "/", "j", ".", "p", "n", "g">>, "false", "absent", 2)}

AzureItemsResponses ==
    AzureResponses({[EmptyBody EXCEPT !.value = l] : l \in Listings(AzureItems, MaxTreeItems)})

AzureContentResponses == AzureResponses({[EmptyBody EXCEPT !.text = "x = 1"]})

(***************************************************************************)
(* providers/azure_devops.py: _api_get, get_default_branch, list_files,    *)
(* fetch_file_content.                                                     *)
(***************************************************************************)
\* AzureDevOpsProvider._api_get, given what session.get does.
azure_api_get(resp) ==
    IF resp.failed
    THEN Outcome("RequestException", "transport", 0, EmptyBody)
    ELSE CASE resp.status = 404 -> Outcome("AzureDevOpsError", "Repository not found.", 0, EmptyBody)
           [] resp.status = 401 -> Outcome("AzureDevOpsError", "Authentication failed.", 0, EmptyBody)
           [] resp.status = 403 -> Outcome("AzureDevOpsError", "Access denied.", 0, EmptyBody)
           [] resp.status \notin {401, 403, 404} /\ resp.status >= 400 ->
                 Outcome("HTTPError", "raise_for_status", 0, EmptyBody)
           [] OTHER -> Outcome("return", "", 0, resp.body)

\* A GET of the Azure DevOps provider as logged.
AzureRequest(endpoint, at, resp) ==
    [endpoint |-> endpoint, at |-> at, resp |-> resp,
     raised |-> azure_api_get(resp).kind, reset_at |-> 0]

\* `data.get("defaultBranch", "refs/heads/main").removeprefix("refs/heads/")`
DefaultBranchName(body) ==
    Str(RemovePrefix(IF body.defaultBranch = Absent THEN <<"r", "e", "f", "s", "/", "h", "e", "a", "d", "s", "/", "m", "a", "i", "n">> ELSE body.defaultBranch,
                     <<"r", "e", "f", "s", "/", "h", "e", "a", "d", "s", "/">>))

\* A list_files that asks for the default branch whatever branch it is given.
BranchMissingAlways(b) == TRUE

\* `if not branch:` for the RepoInfo of the URL parser, whose branch is None
\* or a non-empty string.
BranchMissing(b) == b = NoBranch

\* `item.get("path", "").lstrip("/")`
ItemPath(item) == IF item.path = Absent THEN <<>> ELSE LStripSlash(item.path)

\* A filter that lets folders through.
ItemKeptFolders(item) == ItemPath(item) # <<>>

\* The items list_files keeps: `if item.get("isFolder"): continue` and
\* `if not path: continue`.
ItemKept(item) == item.isFolder # "true" /\ ItemPath(item) # <<>>

\* is_binary as lines 90-92 compute it.
ItemIsBinary(item) ==
    LET is_binary == item.isBinary = "true"
    IN  IF ~is_binary THEN is_binary_by_extension(ItemPath(item)) ELSE is_binary

\* The FileEntry made of an item (language_hint is left out).
AzureEntryOf(item) ==
    [path |-> ItemPath(item), size |-> item.size, is_binary |-> ItemIsBinary(item)]

\* The loop over data["value"].
AzureFiles(value) ==
    LET kept == SelectSeq(value, ItemKept)
    IN  [i \in DOMAIN kept |-> AzureEntryOf(kept[i])]

azure_get_default_branch ==
    /\ op = "none"
    /\ \E r \in AzureRepoResponses :
        LET o == azure_api_get(r)
        IN  /\ op' = "get_default_branch"
            /\ gets' = <<AzureRequest("repo", "", r)>>
            /\ result' = IF o.kind = "return"
                         THEN Return(DefaultBranchName(o.body), <<>>)
                         ELSE Raise(o)
            /\ UNCHANGED <<branch, run, app, lib>>

\* r1 answers the get_default_branch request, which is made only when the
\* branch is missing.
azure_list_files ==
    /\ op = "none"
    /\ \E r1 \in (IF BranchMissing(branch) THEN AzureRepoResponses ELSE {TransportFailure}) :
        LET resolve == BranchMissing(branch)
            o1 == azure_api_get(r1)
            g1 == IF resolve THEN <<AzureRequest("repo", "", r1)>> ELSE <<>>
        IN  /\ op' = "list_files"
            /\ UNCHANGED <<run, app, lib>>
            /\ IF resolve /\ o1.kind # "return"
               THEN /\ gets' = g1
                    /\ result' = Raise(o1)
                    /\ branch' = branch
               ELSE LET b == IF resolve THEN DefaultBranchName(o1.body) ELSE branch
                    IN  /\ branch' = b
                        /\ \E r2 \in AzureItemsResponses :
                            LET o2 == azure_api_get(r2)
                            IN  /\ gets' = Append(g1, AzureRequest("items", b, r2))
                                /\ result' = IF o2.kind = "return"
                                             THEN Return("", AzureFiles(o2.body.value))
                                             ELSE Raise(o2)

\* fetch_file_content calls session.get itself: 404 is "File not found", any
\* other error status is raise_for_status, else resp.text.
azure_fetch_file_content ==
    /\ op = "none"
    /\ \E r \in AzureContentResponses :
        /\ op' = "fetch_file_content"
        /\ gets' = <<[AzureRequest("items", BranchOrMain, r) EXCEPT
                          !.raised = IF r.failed THEN "RequestException"
                                     ELSE IF r.status = 404 THEN "AzureDevOpsError"
                                     ELSE IF r.status >= 400 THEN "HTTPError"
                                     ELSE "return"]>>
        /\ result' = IF r.failed
                     THEN Raise(Outcome("RequestException", "transport", 0, EmptyBody))
                     ELSE IF r.status = 404
                     THEN Raise(Outcome("AzureDevOpsError", "File not found", 0, EmptyBody))
                     ELSE IF r.status >= 400
                     THEN Raise(Outcome("HTTPError", "raise_for_status", 0, EmptyBody))
                     ELSE Return(r.body.text, <<>>)
        /\ UNCHANGED <<branch, run, app, lib>>

NextAzure ==
    azure_list_files \/ azure_get_default_branch \/ azure_fetch_file_content \/ TakeResult

(***************************************************************************)
(* Both providers: _run_conversion picks the class by repo_info.provider.  *)
(***************************************************************************)
\* The RepoInfo of https://dev.azure.com/o/p/_git/r.
AzureRepo == RepoInfo("azure_devops", "o", "r", "p", "https://dev.azure.com/o/p/_git/r")

\* A RepoInfo from the URL parser, with or without a branch, and the provider
\* made for it; no operation has run.
InitProviders ==
    /\ repo_info \in {GitHubRepo, AzureRepo}
    /\ provider = repo_info.provider
    /\ files = <<>>
    /\ max_file_size = 0
    /\ content = <<>>
    /\ progress = FetchProgress(0)
    /\ pc = "created"
    /\ idx = 0
    /\ pulls = 0
    /\ calls = <<>>
    /\ snapshots = <<>>
    /\ branch \in {NoBranch, "dev"}
    /\ op = "none"
    /\ gets = <<>>
    /\ result = [kind |-> "none", text |-> "", reset_at |-> 0, files |-> <<>>]
    /\ url = <<>>
    /\ markdown = <<>>
    /\ LibIdle

NextProviders ==
    \/ provider = "github" /\ NextGitHub
    \/ provider = "azure_devops" /\ NextAzure

SpecProviders == InitProviders /\ [][NextProviders]_vars

(***************************************************************************)
(* url_parser.py: the string operations it uses, on sequences of           *)
(* characters.                                                             *)
(***************************************************************************)
\* The whitespace of the URLs used here.
Whitespace == {" ", "\t"}

\* s.strip()
RECURSIVE Strip(_)
Strip(s) ==
    IF s = <<>> THEN s
    ELSE IF s[1] \in Whitespace THEN Strip(Tail(s))
    ELSE IF s[Len(s)] \in Whitespace THEN Strip(SubSeq(s, 1, Len(s) - 1))
    ELSE s

\* s.strip("/")
RECURSIVE StripSlashes(_)
StripSlashes(s) ==
    IF s = <<>> THEN s
    ELSE IF s[1] = "/" THEN StripSlashes(Tail(s))
    ELSE IF s[Len(s)] = "/" THEN StripSlashes(SubSeq(s, 1, Len(s) - 1))
    ELSE s

\* The least index from `from` on at which s has a character of cs; Len(s) + 1
\* when it has none.
FindAny(s, cs, from) ==
    IF \E i \in from..Len(s) : s[i] \in cs
    THEN CHOOSE i \in from..Len(s) : s[i] \in cs /\ \A j \in from..(i - 1) : s[j] \notin cs
    ELSE Len(s) + 1

\* s.find(sub), 1-based; 0 for Python's -1.
FindSub(s, sub) ==
    LET at(i) == i + Len(sub) - 1 <= Len(s) /\ SubSeq(s, i, i + Len(sub) - 1) = sub
    IN  IF \E i \in 1..Len(s) : at(i)
        THEN CHOOSE i \in 1..Len(s) : at(i) /\ \A j \in 1..(i - 1) : ~at(j)
        ELSE 0

\* s.endswith(suffix)
EndsWith(s, suffix) ==
    Len(s) >= Len(suffix) /\ SubSeq(s, Len(s) - Len(suffix) + 1, Len(s)) = suffix

\* s.removesuffix(suffix)
RemoveSuffix(s, suffix) ==
    IF EndsWith(s, suffix) THEN SubSeq(s, 1, Len(s) - Len(suffix)) ELSE s

\* s.split("/"): at least one part, empty parts kept.
RECURSIVE Split(_)
Split(s) ==
    LET i == FindAny(s, {"/"}, 1)
    IN  IF i > Len(s)
        THEN <<s>>
        ELSE <<SubSeq(s, 1, i - 1)>> \o Split(SubSeq(s, i + 1, Len(s)))

\* "/".join(parts)
RECURSIVE Join(_)
Join(parts) ==
    IF parts = <<>> THEN <<>>
    ELSE IF Len(parts) = 1 THEN parts[1]
    ELSE parts[1] \o <<"/">> \o Join(Tail(parts))

(***************************************************************************)
(* url_parser.py: urllib.parse.urlparse, for URLs without ';', control     *)
(* characters and IPv6 literals.                                           *)
(***************************************************************************)
Letters == {LowerCase[i] : i \in DOMAIN LowerCase} \cup {UpperCase[i] : i \in DOMAIN UpperCase}

\* The characters a scheme is made of.
SchemeChars == Letters \cup {Digits[i] : i \in DOMAIN Digits} \cup {"+", "-", "."}

\* The scheme, lower-cased, and what follows its ':'; the scheme is empty when
\* the text before the first ':' is not a scheme.
SplitScheme(u) ==
    LET i == FindAny(u, {":"}, 1)
    IN  IF /\ i > 1
           /\ i <= Len(u)
           /\ u[1] \in Letters
           /\ \A j \in 1..(i - 1) : u[j] \in SchemeChars
        THEN [scheme |-> Lower(SubSeq(u, 1, i - 1)), rest |-> SubSeq(u, i + 1, Len(u))]
        ELSE [scheme |-> <<>>, rest |-> u]

\* The network location: what follows a leading "//" up to the next '/', '?'
\* or '#'.
SplitNetloc(rest) ==
    IF Len(rest) >= 2 /\ SubSeq(rest, 1, 2) = <<"/", "/">>
    THEN LET end == FindAny(rest, {"/", "?", "#"}, 3)
         IN  [netloc |-> SubSeq(rest, 3, end - 1), rest |-> SubSeq(rest, end, Len(rest))]
    ELSE [netloc |-> <<>>, rest |-> rest]

\* ParseResult.hostname: the netloc after its last '@' and before its ':',
\* lower-cased; empty for None.
Hostname(netloc) ==
    LET ats == {i \in DOMAIN netloc : netloc[i] = "@"}
        hostinfo == IF ats = {} THEN netloc
                    ELSE SubSeq(netloc, (CHOOSE i \in ats : \A j \in ats : j <= i) + 1,
                                Len(netloc))
    IN  Lower(SubSeq(hostinfo, 1, FindAny(hostinfo, {":"}, 1) - 1))

\* urlparse(url): the scheme, hostname, path and query of the result;
\* `invalid` when urlparse raises ValueError("Invalid IPv6 URL"), which it
\* does for a bracket in the netloc of a host that is a name.
urlparse(u) ==
    LET s == SplitScheme(u)
        n == SplitNetloc(s.rest)
        nofrag == SubSeq(n.rest, 1, FindAny(n.rest, {"#"}, 1) - 1)
        q == FindAny(nofrag, {"?"}, 1)
    IN  [invalid |-> \E i \in DOMAIN n.netloc : n.netloc[i] \in {"[", "]"},
         scheme |-> s.scheme,
         hostname |-> Hostname(n.netloc),
         path |-> SubSeq(nofrag, 1, q - 1),
         query |-> SubSeq(nofrag, q + 1, Len(nofrag))]

(***************************************************************************)
(* url_parser.py: parse_repo_url and its helpers.                          *)
(***************************************************************************)
\* A RepoInfo as the parser returns it; branch and project are Absent for
\* None.
Parsed(p, owner, repo, parsed_branch, project) ==
    [kind |-> "return", provider |-> p, owner |-> owner, repo |-> repo,
     branch |-> parsed_branch, project |-> project]

\* The parser raises: URLParseError, or the ValueError of urlparse.
Failure(kind) ==
    [kind |-> kind, provider |-> "<None>", owner |-> <<>>, repo |-> <<>>,
     branch |-> Absent, project |-> Absent]

\* A branch that stops at the first segment after /tree/.
GitHubBranchFirstSegment(parts) ==
    IF Len(parts) >= 4 /\ parts[3] = <<"t", "r", "e", "e">> THEN parts[4] ELSE Absent

\* `branch` of _parse_github: None, or everything after /tree/.
GitHubBranch(parts) ==
    IF Len(parts) >= 4 /\ parts[3] = <<"t", "r", "e", "e">>
    THEN Join(SubSeq(parts, 4, Len(parts)))
    ELSE Absent

_parse_github(path) ==
    LET parts == Split(path)
    IN  IF Len(parts) < 2
        THEN Failure("URLParseError")
        ELSE Parsed("github", parts[1], RemoveSuffix(parts[2], <<".", "g", "i", "t">>),
                    GitHubBranch(parts), Absent)

\* re.search(r"version=GB(.+?)(?:&|$)", query): the first "version=GB" that a
\* character follows; the group is that character and what follows it up to
\* the next '&' or the end.
_extract_azdo_branch(query) ==
    LET i == FindSub(query, <<"v", "e", "r", "s", "i", "o", "n", "=", "G", "B">>)
        rest == SubSeq(query, i + 10, Len(query))
    IN  IF i = 0 \/ rest = <<>>
        THEN Absent
        ELSE SubSeq(rest, 1, FindAny(rest, {"&"}, 2) - 1)

_parse_azure_devops_new(path, query) ==
    LET parts == Split(path)
    IN  IF Len(parts) < 4 \/ parts[3] # <<"_", "g", "i", "t">>
        THEN Failure("URLParseError")
        ELSE Parsed("azure_devops", parts[1], parts[4], _extract_azdo_branch(query), parts[2])

_parse_azure_devops_old(org, path, query) ==
    LET parts == Split(path)
    IN  IF Len(parts) < 3 \/ parts[2] # <<"_", "g", "i", "t">>
        THEN Failure("URLParseError")
        ELSE Parsed("azure_devops", org, parts[3], _extract_azdo_branch(query), parts[1])

parse_repo_url(text) ==
    LET u == Strip(text)
        parsed == urlparse(u)
        host == parsed.hostname
        path == StripSlashes(parsed.path)
    IN  IF u = <<>> THEN Failure("URLParseError")
        ELSE IF parsed.invalid THEN Failure("ValueError")
        ELSE IF parsed.scheme = <<>> THEN Failure("URLParseError")
        ELSE IF parsed.scheme \notin {<<"h", "t", "t", "p">>, <<"h", "t", "t", "p", "s">>} THEN Failure("URLParseError")
        ELSE IF host = <<"g", "i", "t", "h", "u", "b", ".", "c", "o", "m">> THEN _parse_github(path)
        ELSE IF host = <<"d", "e", "v", ".", "a", "z", "u", "r", "e", ".", "c", "o", "m">> THEN _parse_azure_devops_new(path, parsed.query)
        ELSE IF EndsWith(host, <<".", "v", "i", "s", "u", "a", "l", "s", "t", "u", "d", "i", "o", ".", "c", "o", "m">>)
             THEN _parse_azure_devops_old(RemoveSuffix(host, <<".", "v", "i", "s", "u", "a", "l", "s", "t", "u", "d", "i", "o", ".", "c", "o", "m">>), path,
                                          parsed.query)
        ELSE Failure("URLParseError")

(***************************************************************************)
(* The URLs given to the parser.                                           *)
(***************************************************************************)
\* Bound: the segments of a path.
MaxSegments == 5

\* The sequences of 1 to n segments of pool.
SegLists(pool, n) == UNION {[1..k -> pool] : k \in 1..n}

Paddings == {<<>>, <<" ">>}

Schemes == {<<"h", "t", "t", "p", "s", ":", "/", "/">>, <<"h", "t", "t", "p", ":", "/", "/">>, <<"H", "T", "T", "P", "S", ":", "/", "/">>, <<"f", "t", "p", ":", "/", "/">>, <<>>, <<"h", "t", "t", "p", "s", ":">>}

Hosts ==
    {<<"g", "i", "t", "h", "u", "b", ".", "c", "o", "m">>, <<"G", "i", "t", "H", "u", "b", ".", "c", "o", "m">>, <<"u", "@", "g", "i", "t", "h", "u", "b", ".", "c", "o", "m", ":", "4", "4", "3">>, <<"d", "e", "v", ".", "a", "z", "u", "r", "e", ".", "c", "o", "m">>,
     <<"o", ".", "v", "i", "s", "u", "a", "l", "s", "t", "u", "d", "i", "o", ".", "c", "o", "m">>, <<"v", "i", "s", "u", "a", "l", "s", "t", "u", "d", "i", "o", ".", "c", "o", "m">>, <<"g", "i", "t", "l", "a", "b", ".", "c", "o", "m">>, <<"[", "g", "i", "t", "h", "u", "b", ".", "c", "o", "m">>, <<>>}

\* Every scheme and host with a path of each shape, padded or not.
SchemeHostUrls ==
    {pre \o s \o h \o p \o q \o post :
        pre \in Paddings, s \in Schemes, h \in Hosts,
        p \in {<<>>, <<"/", "o", "/", "r">>, <<"/", "o", "/", "p", "/", "_", "g", "i", "t", "/", "r">>, <<"/", "p", "/", "_", "g", "i", "t", "/", "r">>},
        q \in {<<>>, <<"?", "v", "e", "r", "s", "i", "o", "n", "=", "G", "B", "d", "e", "v">>}, post \in Paddings}
    \cup {<<>>, <<" ">>, <<" ", "\t">>}

GitHubSegments == {<<"o">>, <<"r", ".", "g", "i", "t">>, <<"t", "r", "e", "e">>, <<"a">>, <<>>}

GitHubUrls ==
    {<<"h", "t", "t", "p", "s", ":", "/", "/", "g", "i", "t", "h", "u", "b", ".", "c", "o", "m", "/">> \o Join(segs) \o t :
        segs \in SegLists(GitHubSegments, MaxSegments),
        t \in {<<>>, <<"/">>, <<"?", "x", "=", "1">>, <<"#", "f">>}}

AzureSegments == {<<"o">>, <<"_", "g", "i", "t">>, <<"r">>}

AzureQueries ==
    {<<>>, <<"?", "v", "e", "r", "s", "i", "o", "n", "=", "G", "B", "d", "e", "v">>, <<"?", "v", "e", "r", "s", "i", "o", "n", "=", "G", "B", "d", "e", "v", "&", "x", "=", "1">>, <<"?", "x", "=", "1", "&", "v", "e", "r", "s", "i", "o", "n", "=", "G", "B", "a", "/", "b">>,
     <<"?", "v", "e", "r", "s", "i", "o", "n", "=", "G", "B">>, <<"?", "v", "e", "r", "s", "i", "o", "n", "=", "G", "B", "&", "x", "=", "1">>, <<"?", "v", "e", "r", "s", "i", "o", "n", "=", "G", "B", "d", "e", "v", "#", "f">>,
     <<"?", "x", "v", "e", "r", "s", "i", "o", "n", "=", "G", "B", "a", "&", "v", "e", "r", "s", "i", "o", "n", "=", "G", "B", "b">>, <<"?", "V", "e", "r", "s", "i", "o", "n", "=", "G", "B", "d", "e", "v">>}

AzureUrls ==
    {h \o Join(segs) \o q :
        h \in {<<"h", "t", "t", "p", "s", ":", "/", "/", "d", "e", "v", ".", "a", "z", "u", "r", "e", ".", "c", "o", "m", "/">>, <<"h", "t", "t", "p", "s", ":", "/", "/", "o", ".", "v", "i", "s", "u", "a", "l", "s", "t", "u", "d", "i", "o", ".", "c", "o", "m", "/">>},
        segs \in SegLists(AzureSegments, MaxSegments),
        q \in AzureQueries}

\* URLs with an empty owner, repository or project segment, with a
\* repository that is only the suffix ".git", and with the bare host
\* ".visualstudio.com".
EmptyNameUrls ==
    {<<"h", "t", "t", "p", "s", ":", "/", "/", "g", "i", "t", "h", "u", "b", ".", "c", "o", "m", "/", "o", "/", ".", "g", "i", "t">>, <<"h", "t", "t", "p", "s", ":", "/", "/", "g", "i", "t", "h", "u", "b", ".", "c", "o", "m", "/", "o", "/", ".", "g", "i", "t", "/">>, <<"h", "t", "t", "p", "s", ":", "/", "/", "g", "i", "t", "h", "u", "b", ".", "c", "o", "m", "/", "o", "/", ".", "g", "i", "t", "/", "t", "r", "e", "e", "/", "m", "a", "i", "n">>,
     <<"h", "t", "t", "p", "s", ":", "/", "/", "g", "i", "t", "h", "u", "b", ".", "c", "o", "m", "/", "/", "r">>, <<"h", "t", "t", "p", "s", ":", "/", "/", "g", "i", "t", "h", "u", "b", ".", "c", "o", "m", "/", "o", "/", "/">>, <<"h", "t", "t", "p", "s", ":", "/", "/", "g", "i", "t", "h", "u", "b", ".", "c", "o", "m", "/", "o", "/", "r", ".", "g", "i", "t", ".", "g", "i", "t">>,
     <<"h", "t", "t", "p", "s", ":", "/", "/", ".", "v", "i", "s", "u", "a", "l", "s", "t", "u", "d", "i", "o", ".", "c", "o", "m", "/", "p", "/", "_", "g", "i", "t", "/", "r">>, <<"h", "t", "t", "p", "s", ":", "/", "/", ".", "v", "i", "s", "u", "a", "l", "s", "t", "u", "d", "i", "o", ".", "c", "o", "m", "/", "_", "g", "i", "t", "/", "r">>,
     <<"h", "t", "t", "p", "s", ":", "/", "/", "d", "e", "v", ".", "a", "z", "u", "r", "e", ".", "c", "o", "m", "/", "o", "/", "/", "_", "g", "i", "t", "/", "r">>, <<"h", "t", "t", "p", "s", ":", "/", "/", "d", "e", "v", ".", "a", "z", "u", "r", "e", ".", "c", "o", "m", "/", "/", "p", "/", "_", "g", "i", "t", "/", "r">>,
     <<"h", "t", "t", "p", "s", ":", "/", "/", "d", "e", "v", ".", "a", "z", "u", "r", "e", ".", "c", "o", "m", "/", "o", "/", "p", "/", "_", "g", "i", "t", "/">>, <<"h", "t", "t", "p", "s", ":", "/", "/", "d", "e", "v", ".", "a", "z", "u", "r", "e", ".", "c", "o", "m", "/", "o", "/", "p", "/", "_", "g", "i", "t", "/", ".", "g", "i", "t">>,
     <<"h", "t", "t", "p", "s", ":", "/", "/", "o", ".", "v", "i", "s", "u", "a", "l", "s", "t", "u", "d", "i", "o", ".", "c", "o", "m", "/", "/", "_", "g", "i", "t", "/", "r">>, <<"h", "t", "t", "p", "s", ":", "/", "/", "o", ".", "v", "i", "s", "u", "a", "l", "s", "t", "u", "d", "i", "o", ".", "c", "o", "m", "/", "p", "/", "_", "g", "i", "t", "/">>}

Urls == SchemeHostUrls \cup GitHubUrls \cup AzureUrls \cup EmptyNameUrls

\* No RepoInfo yet.
NoRepoInfo == RepoInfo("<None>", "", "", NoProject, "")

\* The text of the URL field; nothing is parsed yet.
InitUrl ==
    /\ url \in Urls
    /\ repo_info = NoRepoInfo
    /\ markdown = <<>>
    /\ LibIdle
    /\ provider = "<None>"
    /\ files = <<>>
    /\ max_file_size = 0
    /\ content = <<>>
    /\ progress = FetchProgress(0)
    /\ pc = "created"
    /\ idx = 0
    /\ pulls = 0
    /\ calls = <<>>
    /\ snapshots = <<>>
    /\ branch = NoBranch
    /\ op = "none"
    /\ gets = <<>>
    /\ result = [kind |-> "none", text |-> "", reset_at |-> 0, files |-> <<>>]

\* _run_conversion calls parse_repo_url(url): a RepoInfo, or an exception.
Parse ==
    /\ op = "none"
    /\ LET r == parse_repo_url(url)
       IN  /\ op' = "parse_repo_url"
           /\ result' = [kind |-> r.kind, text |-> "", reset_at |-> 0, files |-> <<>>]
           /\ IF r.kind = "return"
              THEN /\ repo_info' = RepoInfo(r.provider, Str(r.owner), Str(r.repo),
                                            IF r.project = Absent THEN NoProject
                                            ELSE Str(r.project),
                                            Str(Strip(url)))
                   /\ branch' = IF r.branch = Absent THEN NoBranch ELSE Str(r.branch)
              ELSE UNCHANGED <<repo_info, branch>>
    /\ UNCHANGED <<run, gets, url, markdown, lib>>

NextUrl == Parse

SpecUrl == InitUrl /\ [][NextUrl]_vars

(***************************************************************************)
(* tree_builder.py.  Texts are sequences of characters, a multi-line text  *)
(* is the sequence of its lines.  The box-drawing characters are written   *)
(* '+' (U+251C), '^' (U+2514), '=' (U+2500) and '|' (U+2502).               *)
(***************************************************************************)
\* The characters of the paths in code point order.
CodePoints ==
    <<"-", ".", "/">> \o Digits \o UpperCase \o <<"_">> \o LowerCase

CodePoint(c) == CHOOSE i \in DOMAIN CodePoints : CodePoints[i] = c

\* a < b for str: by code point, a proper prefix first.
RECURSIVE StrLess(_, _)
StrLess(a, b) ==
    IF b = <<>> THEN FALSE
    ELSE IF a = <<>> THEN TRUE
    ELSE IF a[1] = b[1] THEN StrLess(Tail(a), Tail(b))
    ELSE CodePoint(a[1]) < CodePoint(b[1])

\* A build_tree that takes the paths in the order given.
Unsorted(paths) == paths

\* sorted(paths)
RECURSIVE Sorted(_)
Sorted(paths) ==
    IF paths = <<>>
    THEN <<>>
    ELSE LET rest == Sorted(Tail(paths))
             before == SelectSeq(rest, LAMBDA p : ~StrLess(paths[1], p))
             after == SelectSeq(rest, LAMBDA p : StrLess(paths[1], p))
         IN  before \o <<paths[1]>> \o after

\* The nested dict as the sequence of its keys' full paths (sequences of
\* parts) in insertion order.  `for part in parts: node = node.setdefault(part,
\* {})` from the k-th part on: a key is added the first time it is met.
RECURSIVE SetDefaults(_, _, _)
SetDefaults(tree, parts, k) ==
    IF k > Len(parts)
    THEN tree
    ELSE LET key == SubSeq(parts, 1, k)
         IN  SetDefaults(IF \E i \in DOMAIN tree : tree[i] = key
                         THEN tree
                         ELSE Append(tree, key),
                         parts, k + 1)

\* `for path in sorted(paths):` from the i-th path on.
RECURSIVE InsertPaths(_, _, _)
InsertPaths(tree, sorted_paths, i) ==
    IF i > Len(sorted_paths)
    THEN tree
    ELSE InsertPaths(SetDefaults(tree, Split(sorted_paths[i]), 1), sorted_paths, i + 1)

\* list(node.items()) of the dict at key `parent`: its children in insertion
\* order.
Items(tree, parent) ==
    SelectSeq(tree, LAMBDA key : /\ Len(key) = Len(parent) + 1
                                 /\ SubSeq(key, 1, Len(parent)) = parent)

\* A _render_tree that indents what is below an entry by four spaces whether
\* the entry is the last of its dict or not.
RECURSIVE RenderTreeSpacesOnly(_, _, _, _)
RenderTreeSpacesOnly(tree, parent, prefix, i) ==
    LET entries == Items(tree, parent)
    IN  IF i > Len(entries)
        THEN <<>>
        ELSE LET name == entries[i][Len(entries[i])]
                 children == Items(tree, entries[i])
                 is_last == i = Len(entries)
                 connector == IF is_last THEN <<"^", "=", "=", " ">> ELSE <<"+", "=", "=", " ">>
                 display_name == IF children # <<>> THEN name \o <<"/">> ELSE name
                 extension == <<" ", " ", " ", " ">>
             IN  <<prefix \o connector \o display_name>>
                     \o (IF children # <<>>
                         THEN RenderTreeSpacesOnly(tree, entries[i], prefix \o extension, 1)
                         ELSE <<>>)
                     \o RenderTreeSpacesOnly(tree, parent, prefix, i + 1)

\* _render_tree(tree, lines, prefix) for the dict at `parent`, from its i-th
\* entry on: the lines appended.
RECURSIVE _render_tree(_, _, _, _)
_render_tree(tree, parent, prefix, i) ==
    LET entries == Items(tree, parent)
    IN  IF i > Len(entries)
        THEN <<>>
        ELSE LET name == entries[i][Len(entries[i])]
                 children == Items(tree, entries[i])
                 is_last == i = Len(entries)
                 connector == IF is_last THEN <<"^", "=", "=", " ">> ELSE <<"+", "=", "=", " ">>
                 display_name == IF children # <<>> THEN name \o <<"/">> ELSE name
                 extension == IF is_last THEN <<" ", " ", " ", " ">> ELSE <<"|", " ", " ", " ">>
             IN  <<prefix \o connector \o display_name>>
                     \o (IF children # <<>>
                         THEN _render_tree(tree, entries[i], prefix \o extension, 1)
                         ELSE <<>>)
                     \o _render_tree(tree, parent, prefix, i + 1)

\* build_tree(paths): the lines of the text returned; "" is one empty line.
build_tree(paths) ==
    IF paths = <<>>
    THEN << <<>> >>
    ELSE _render_tree(InsertPaths(<<>>, Sorted(paths), 1), <<>>, <<>>, 1)

(***************************************************************************)
(* file_filter.py: get_language_hint, with the entries of its two tables   *)
(* that the paths used here can reach.                                     *)
(***************************************************************************)
LANGUAGE_MAP ==
    [ext \in {<<".", "p", "y">>, <<".", "m", "d">>, <<".", "r">>, <<".", "R">>} |->
        CASE ext = <<".", "p", "y">> -> <<"p", "y", "t", "h", "o", "n">>
          [] ext = <<".", "m", "d">> -> <<"m", "a", "r", "k", "d", "o", "w", "n">>
          [] OTHER -> <<"r">>]

FILENAME_LANGUAGE_MAP ==
    [filename \in {<<"M", "a", "k", "e", "f", "i", "l", "e">>, <<"G", "e", "m", "f", "i", "l", "e">>} |->
        IF filename = <<"M", "a", "k", "e", "f", "i", "l", "e">> THEN <<"m", "a", "k", "e", "f", "i", "l", "e">> ELSE <<"r", "u", "b", "y">>]

get_language_hint(path) ==
    LET parts == Split(path)
        filename == parts[Len(parts)]
        dot_pos == RFindDot(path)
        ext == SubSeq(path, dot_pos, Len(path))
    IN  IF filename \in DOMAIN FILENAME_LANGUAGE_MAP THEN FILENAME_LANGUAGE_MAP[filename]
        ELSE IF dot_pos = 0 THEN <<>>
        ELSE IF ext \in DOMAIN LANGUAGE_MAP THEN LANGUAGE_MAP[ext]
        ELSE IF Lower(ext) \in DOMAIN LANGUAGE_MAP THEN LANGUAGE_MAP[Lower(ext)]
        ELSE <<>>

(***************************************************************************)
(* markdown_renderer.py.  The backquote (U+0060) is written "'".           *)
(***************************************************************************)
\* A renderer that keeps every file that is not binary, fetched or not.
IsTextFileAnyContent(fs, cs, i) == ~fs[i].is_binary

\* `not f.is_binary and f.content is not None` for the i-th file; cs[i] is its
\* content, Absent for None.
IsTextFile(fs, cs, i) == ~fs[i].is_binary /\ cs[i] # Absent

\* The positions of text_files in files, in order.
TextFiles(fs, cs) ==
    SelectSeq([i \in DOMAIN fs |-> i], LAMBDA i : IsTextFile(fs, cs, i))

\* The four parts appended for the i-th file, as lines.
FileSection(fs, cs, i) ==
    <<<<"#", "#", "#", " ", "'">> \o fs[i].path \o <<"'">>,
      <<>>,
      <<"'", "'", "'">> \o get_language_hint(fs[i].path),
      cs[i],
      <<"'", "'", "'">>,
      <<>>>>

RECURSIVE FileSections(_, _, _, _)
FileSections(fs, cs, text_files, k) ==
    IF k > Len(text_files)
    THEN <<>>
    ELSE FileSection(fs, cs, text_files[k]) \o FileSections(fs, cs, text_files, k + 1)

\* render_markdown(repo_display_name, files): the lines of "\n".join(parts).
render_markdown(repo_display_name, fs, cs) ==
    LET text_files == TextFiles(fs, cs)
        all_paths == [k \in DOMAIN text_files |-> fs[text_files[k]].path]
    IN  <<<<"#", " ", "R", "e", "p", "o", "s", "i", "t", "o", "r", "y", ":", " ">> \o repo_display_name, <<>>,
          <<"#", "#", " ", "F", "i", "l", "e", " ", "S", "t", "r", "u", "c", "t", "u", "r", "e">>, <<>>,
          <<"'", "'", "'">>>>
        \o build_tree(all_paths)
        \o <<<<"'", "'", "'">>, <<>>,
             <<"#", "#", " ", "F", "i", "l", "e", "s">>, <<>>>>
        \o FileSections(fs, cs, text_files, 1)

\* The paths of the files given to the renderer.
RenderPaths == {<<"a", ".", "m", "d">>, <<"d", "/", "a", ".", "m", "d">>, <<"d", "/", "c", ".", "p", "y">>, <<"d", "-", "e">>, <<"d", ".", "p", "n", "g">>, <<"B", ".", "M", "D">>}

\* What fetch_all_files leaves in FileEntry.content: None, or a text of one
\* line.
RenderContents == {Absent, <<>>, <<"x", " ", "=", " ", "1">>}

\* Lists of at most MaxFiles files, in any order, a path possibly twice.
RenderLists ==
    UNION {[1..n -> [path : RenderPaths, size : {1}, is_binary : BOOLEAN]] : n \in 0..MaxFiles}

\* The files after fetch_all_files, before render_markdown.
InitRender ==
    /\ files \in RenderLists
    /\ content \in [1..Len(files) -> RenderContents]
    /\ markdown = <<>>
    /\ LibIdle
    /\ url = <<>>
    /\ repo_info = GitHubRepo
    /\ provider = "github"
    /\ max_file_size = 0
    /\ progress = FetchProgress(Len(files))
    /\ pc = "done"
    /\ idx = Len(files)
    /\ pulls = Len(files) + 1
    /\ calls = <<>>
    /\ snapshots = <<>>
    /\ branch = "main"
    /\ op = "none"
    /\ gets = <<>>
    /\ result = [kind |-> "none", text |-> "", reset_at |-> 0, files |-> <<>>]

\* _run_conversion calls render_markdown(repo_display, files).
Render ==
    /\ op = "none"
    /\ op' = "render_markdown"
    /\ markdown' = render_markdown(<<"o", "/", "r">>, files, content)
    /\ UNCHANGED <<run, branch, gets, result, url, repo_info, lib>>

NextRender == Render

SpecRender == InitRender /\ [][NextRender]_vars

(***************************************************************************)
(* re, as file_filter.py uses it: re.compile(p) and Pattern.search(path)   *)
(* for patterns made of literals, '.', '^', '$', escapes of punctuation,   *)
(* \d, character sets without ranges and the repeats '*' and '{m,n}'.       *)
(* Groups, alternation, '?', '+', ranges and the other letter escapes are  *)
(* left out: re_compile answers "unmodelled" for them.                     *)
(***************************************************************************)
\* _sre.MAXREPEAT on a 64-bit build, in digits.
MAXREPEAT == <<"4", "2", "9", "4", "9", "6", "7", "2", "9", "5">>

\* str(n) for n >= 0.
RECURSIVE DigitsOf(_)
DigitsOf(n) ==
    IF n < 10 THEN <<Digits[n + 1]>> ELSE Append(DigitsOf(n \div 10), Digits[(n % 10) + 1])

DigitChars == {Digits[i] : i \in DOMAIN Digits}

\* int(a) >= int(b) for two texts of digits.
RECURSIVE NoLeadingZeros(_)
NoLeadingZeros(a) ==
    IF Len(a) > 1 /\ a[1] = "0" THEN NoLeadingZeros(Tail(a)) ELSE a

NumberAtLeast(a, b) ==
    LET x == NoLeadingZeros(a)
        y == NoLeadingZeros(b)
    IN  Len(x) > Len(y) \/ (Len(x) = Len(y) /\ ~StrLess(x, y))

\* int(a) as a repeat count; a count of more than six digits is more than
\* any text here is long and is kept as 1000000.
RepeatCount(a) ==
    IF Len(NoLeadingZeros(a)) > 6 THEN 1000000 ELSE IntOf(NoLeadingZeros(a))

\* What re.compile(p) does: a Pattern (its items), re.error with its text, or
\* OverflowError.
Compiled(items) == [kind |-> "compiled", items |-> items, msg |-> <<>>]

ReError(msg, pos) ==
    [kind |-> "re.error", items |-> <<>>, msg |-> msg \o <<" ", "a", "t", " ", "p", "o", "s", "i", "t", "i", "o", "n", " ">> \o DigitsOf(pos)]

ReOverflow ==
    [kind |-> "OverflowError", items |-> <<>>, msg |-> <<"t", "h", "e", " ", "r", "e", "p", "e", "t", "i", "t", "i", "o", "n", " ", "n", "u", "m", "b", "e", "r", " ", "i", "s", " ", "t", "o", "o", " ", "l", "a", "r", "g", "e">>]

Unmodelled == [kind |-> "unmodelled", items |-> <<>>, msg |-> <<>>]

\* One item of a parsed pattern: a set of characters (negated or not) with its
\* repeat bounds (hi = -1: no upper bound), or an anchor.
CharsItem(cs, negate) == [at |-> "", cs |-> cs, negate |-> negate, lo |-> 1, hi |-> 1, repeated |-> FALSE]

AtItem(where) == [at |-> where, cs |-> {}, negate |-> FALSE, lo |-> 1, hi |-> 1, repeated |-> FALSE]

\* Tokenizer.__next: the token after the one just taken is looked at when that
\* one is taken, and a backslash that ends the pattern is refused then.
EndsInBackslash(p, j) == j = Len(p) /\ p[j] = "\\"

BadEscapeAtEnd(p) == ReError(<<"b", "a", "d", " ", "e", "s", "c", "a", "p", "e", " ", "(", "e", "n", "d", " ", "o", "f", " ", "p", "a", "t", "t", "e", "r", "n", ")">>, Len(p) - 1)

\* The escapes of letters and digits that sre_parse knows.
KnownEscapes ==
    {"A", "b", "B", "d", "D", "s", "S", "w", "W", "Z", "a", "f", "n", "r", "t", "v", "x", "u", "U", "N"}
        \cup DigitChars

\* The members of a character set from index j on; `any` tells whether one
\* member has been read.  at: the index of the closing ']', 0 when the pattern
\* ends before it, -1 for a backslash ending the pattern, -2 for what is left
\* out.
RECURSIVE SetMembers(_, _, _, _)
SetMembers(p, j, any, cs) ==
    IF j > Len(p) THEN [at |-> 0, cs |-> cs]
    ELSE IF EndsInBackslash(p, j + 1) /\ p[j] # "\\" THEN [at |-> -1, cs |-> cs]
    ELSE IF p[j] = "]" /\ any THEN [at |-> j, cs |-> cs]
    ELSE IF p[j] = "-" THEN [at |-> -2, cs |-> cs]
    ELSE IF p[j] = "\\"
         THEN IF j = Len(p) THEN [at |-> -1, cs |-> cs]
              ELSE IF EndsInBackslash(p, j + 2) THEN [at |-> -1, cs |-> cs]
              ELSE IF p[j + 1] \in Letters \cup DigitChars THEN [at |-> -2, cs |-> cs]
              ELSE SetMembers(p, j + 2, TRUE, cs \cup {p[j + 1]})
    ELSE SetMembers(p, j + 1, TRUE, cs \cup {p[j]})

\* The text of digits of p from index j on.
RECURSIVE DigitsFrom(_, _)
DigitsFrom(p, j) ==
    IF j <= Len(p) /\ p[j] \in DigitChars THEN <<p[j]>> \o DigitsFrom(p, j + 1) ELSE <<>>

\* sre_parse._parse from index i on, `items` parsed so far.
RECURSIVE _parse(_, _, _)
_parse(p, i, items) ==
    IF i > Len(p) THEN Compiled(items)
    ELSE IF p[i] = "\\" /\ i = Len(p) THEN BadEscapeAtEnd(p)
    ELSE IF EndsInBackslash(p, IF p[i] = "\\" THEN i + 2 ELSE i + 1) THEN BadEscapeAtEnd(p)
    ELSE IF p[i] = "\\"
         THEN IF p[i + 1] = "d" THEN _parse(p, i + 2, Append(items, CharsItem(DigitChars, FALSE)))
              ELSE IF p[i + 1] \in KnownEscapes THEN Unmodelled
              ELSE IF p[i + 1] \in Letters
                   THEN ReError(<<"b", "a", "d", " ", "e", "s", "c", "a", "p", "e", " ", "\\">> \o <<p[i + 1]>>, i - 1)
              ELSE _parse(p, i + 2, Append(items, CharsItem({p[i + 1]}, FALSE)))
    ELSE IF p[i] = "["
         THEN LET negate == i < Len(p) /\ p[i + 1] = "^"
                  first == IF negate THEN i + 2 ELSE i + 1
                  set == IF negate /\ EndsInBackslash(p, first)
                         THEN [at |-> -1, cs |-> {}]
                         ELSE SetMembers(p, first, FALSE, {})
              IN  IF set.at = -2 THEN Unmodelled
                  ELSE IF set.at = -1 THEN BadEscapeAtEnd(p)
                  ELSE IF set.at = 0 THEN ReError(<<"u", "n", "t", "e", "r", "m", "i", "n", "a", "t", "e", "d", " ", "c", "h", "a", "r", "a", "c", "t", "e", "r", " ", "s", "e", "t">>, i - 1)
                  ELSE IF EndsInBackslash(p, set.at + 1) THEN BadEscapeAtEnd(p)
                  ELSE _parse(p, set.at + 1, Append(items, CharsItem(set.cs, negate)))
    ELSE IF p[i] \in {"*", "{"}
         THEN LET lo == DigitsFrom(p, i + 1)
                  comma == i + 1 + Len(lo)
                  has_comma == comma <= Len(p) /\ p[comma] = ","
                  hi == IF has_comma THEN DigitsFrom(p, comma + 1) ELSE lo
                  close == IF has_comma THEN comma + 1 + Len(hi) ELSE comma
                  braces == p[i] = "{" /\ close <= Len(p) /\ p[close] = "}" /\ close > i + 1
                  next == IF p[i] = "*" THEN i + 1 ELSE close + 1
                  min == IF p[i] = "*" \/ lo = <<>> THEN 0 ELSE RepeatCount(lo)
                  max == IF p[i] = "*" \/ hi = <<>> THEN -1 ELSE RepeatCount(hi)
              IN  IF p[i] = "{" /\ ~braces
                  THEN IF \E j \in (i + 1)..(IF close <= Len(p) THEN close ELSE Len(p)) :
                              EndsInBackslash(p, j)
                       THEN BadEscapeAtEnd(p)
                       ELSE _parse(p, i + 1, Append(items, CharsItem({"{"}, FALSE)))
                  ELSE IF EndsInBackslash(p, next) THEN BadEscapeAtEnd(p)
                  ELSE IF p[i] = "{" /\ lo # <<>> /\ NumberAtLeast(lo, MAXREPEAT) THEN ReOverflow
                  ELSE IF p[i] = "{" /\ hi # <<>> /\ NumberAtLeast(hi, MAXREPEAT) THEN ReOverflow
                  ELSE IF p[i] = "{" /\ lo # <<>> /\ hi # <<>> /\ ~NumberAtLeast(hi, lo)
                       THEN ReError(<<"m", "i", "n", " ", "r", "e", "p", "e", "a", "t", " ", "g", "r", "e", "a", "t", "e", "r", " ", "t", "h", "a", "n", " ", "m", "a", "x", " ", "r", "e", "p", "e", "a", "t">>, i)
                  ELSE IF items = <<>> \/ items[Len(items)].at # ""
                       THEN ReError(<<"n", "o", "t", "h", "i", "n", "g", " ", "t", "o", " ", "r", "e", "p", "e", "a", "t">>, i - 1)
                  ELSE IF items[Len(items)].repeated
                       THEN ReError(<<"m", "u", "l", "t", "i", "p", "l", "e", " ", "r", "e", "p", "e", "a", "t">>, i - 1)
                  ELSE IF next <= Len(p) /\ p[next] \in {"?", "+"} THEN Unmodelled
                  ELSE _parse(p, next,
                              [items EXCEPT ![Len(items)] =
                                  [@ EXCEPT !.lo = min, !.hi = max, !.repeated = TRUE]])
    ELSE IF p[i] = "^" THEN _parse(p, i + 1, Append(items, AtItem("beginning")))
    ELSE IF p[i] = "$" THEN _parse(p, i + 1, Append(items, AtItem("end")))
    ELSE IF p[i] = "." THEN _parse(p, i + 1, Append(items, CharsItem({"\n"}, TRUE)))
    ELSE IF p[i] \in {"(", ")", "|", "?", "+"} THEN Unmodelled
    ELSE _parse(p, i + 1, Append(items, CharsItem({p[i]}, FALSE)))

\* re.compile(p)
re_compile(p) == _parse(p, 1, <<>>)

\* The items from the k-th on match s at index pos.
RECURSIVE MatchAt(_, _, _, _)
MatchAt(items, k, s, pos) ==
    IF k > Len(items) THEN TRUE
    ELSE IF items[k].at = "beginning" THEN pos = 1 /\ MatchAt(items, k + 1, s, pos)
    ELSE IF items[k].at = "end" THEN pos = Len(s) + 1 /\ MatchAt(items, k + 1, s, pos)
    ELSE LET left == Len(s) - pos + 1
             most == IF items[k].hi = -1 \/ items[k].hi > left THEN left ELSE items[k].hi
         IN  \E n \in items[k].lo..most :
                 /\ \A j \in pos..(pos + n - 1) : (s[j] \in items[k].cs) # items[k].negate
                 /\ MatchAt(items, k + 1, s, pos + n)

\* pat.search(path) is not None, for a path without newlines.
re_search(items, s) == \E pos \in 1..(Len(s) + 1) : MatchAt(items, 1, s, pos)


(***************************************************************************)
(* A function of the library called on its own, as its tests call it.      *)
(***************************************************************************)
\* No fetch_all_files run, no provider operation, no conversion.
NothingElse ==
    /\ provider = "<None>"
    /\ files = <<>>
    /\ max_file_size = 0
    /\ content = <<>>
    /\ progress = FetchProgress(0)
    /\ pc = "created"
    /\ idx = 0
    /\ pulls = 0
    /\ calls = <<>>
    /\ snapshots = <<>>
    /\ HubIdle
    /\ AppIdle

\* The longest list given to build_tree.
MaxPaths == 3

\* The paths given to build_tree: up to three levels, a name that is a file
\* and a directory, an empty name.
TreePaths ==
    {<<"a">>, <<"b">>, <<"a", "/", "b">>, <<"a", "/", "b", "/", "c">>, <<"a", "/", "d">>, <<"e">>, <<"e", "/", "f">>, <<"a", "/">>, <<>>}

InitTree ==
    /\ tree_paths \in UNION {[1..n -> TreePaths] : n \in 0..MaxPaths}
    /\ tree_lines = <<>>
    /\ FilterIdle
    /\ BinaryIdle
    /\ ShutdownIdle
    /\ NothingElse

\* build_tree(paths)
BuildTree ==
    /\ op = "none"
    /\ op' = "build_tree"
    /\ tree_lines' = build_tree(tree_paths)
    /\ UNCHANGED <<run, branch, gets, result, app, tree_paths, filter_io, binary_io, shutdown_io>>

NextTree == BuildTree

SpecTree == InitTree /\ [][NextTree]_vars


(***************************************************************************)
(* file_filter.py: the regex path filter.  In the error texts the          *)
(* backquote is written "'" and the dash U+2014 is written "-".             *)
(***************************************************************************)
\* What a call did: returned a value, or let an exception out.
Value(v) == [kind |-> "return", value |-> v]

Exception(name) == [kind |-> "raise", value |-> <<name>>]

\* validate_patterns(patterns) from the k-th pattern on: an exception other
\* than re.error leaves the loop and the function.
RECURSIVE ValidateFrom(_, _, _)
ValidateFrom(patterns, k, errors) ==
    IF k > Len(patterns) THEN Value(errors)
    ELSE LET c == re_compile(patterns[k])
         IN  IF c.kind = "compiled" THEN ValidateFrom(patterns, k + 1, errors)
             ELSE IF c.kind = "re.error"
                  THEN ValidateFrom(patterns, k + 1,
                                    Append(errors, <<"'">> \o patterns[k] \o <<"'", " ", "-", " ">> \o c.msg))
             ELSE Exception(c.kind)

validate_patterns(patterns) == ValidateFrom(patterns, 1, <<>>)

\* compile_patterns(patterns) from the k-th pattern on.
RECURSIVE CompileFrom(_, _, _)
CompileFrom(patterns, k, compiled) ==
    IF k > Len(patterns) THEN Value(compiled)
    ELSE LET c == re_compile(patterns[k])
         IN  IF c.kind = "compiled" THEN CompileFrom(patterns, k + 1, Append(compiled, c.items))
             ELSE IF c.kind = "re.error" THEN CompileFrom(patterns, k + 1, compiled)
             ELSE Exception(c.kind)

compile_patterns(patterns) == CompileFrom(patterns, 1, <<>>)

\* A matches_any_pattern without the test for the empty list.
MatchesAnyNoDefault(path, compiled) ==
    \E k \in DOMAIN compiled : re_search(compiled[k], path)

\* matches_any_pattern(path, compiled)
matches_any_pattern(path, compiled) ==
    IF compiled = <<>> THEN TRUE
    ELSE \E k \in DOMAIN compiled : re_search(compiled[k], path)

\* The longest list of patterns.
MaxPatterns == 2

\* The patterns given: valid ones, the kinds of malformed ones, one with a
\* repeat count of MAXREPEAT.
FilterPatterns ==
    {<<"\\", ".", "p", "y", "$">>, <<"s", "r", "c", "/">>, <<"[", "b", "a", "d">>, <<"a", "*">>, <<"a", "*", "*">>, <<"*", "a">>, <<"a", "{", "4", "2", "9", "4", "9", "6", "7", "2", "9", "5", "}">>,
     <<"a", "{", "2", "}">>, <<"[", "a", "b", "]", "c">>, <<"\\">>, <<"^", "a", ".">>, <<>>}

\* The paths filtered.
FilterPaths ==
    {<<"s", "r", "c", "/", "m", "a", "i", "n", ".", "p", "y">>, <<"l", "i", "b", "/", "a", ".", "p", "y", "c">>, <<"s", "t", "y", "l", "e", ".", "c", "s", "s">>, <<"a", "a">>, <<"b", "c">>, <<>>}

InitFilter ==
    /\ filter_patterns \in UNION {[1..n -> FilterPatterns] : n \in 0..MaxPatterns}
    /\ filter_errors = NotCalled
    /\ path_patterns = NotCalled
    /\ file_path = <<>>
    /\ matched = NotCalled
    /\ TreeIdle
    /\ BinaryIdle
    /\ ShutdownIdle
    /\ NothingElse

\* main: filter_errors = validate_patterns(filter_patterns)
ValidatePatterns ==
    /\ filter_errors.kind = "none"
    /\ filter_errors' = validate_patterns(filter_patterns)
    /\ UNCHANGED <<run, hub, app, tree_io, filter_patterns, path_patterns, file_path, matched, binary_io, shutdown_io>>

\* main: compiled = compile_patterns(filter_patterns)
CompilePatterns ==
    /\ path_patterns.kind = "none"
    /\ path_patterns' = compile_patterns(filter_patterns)
    /\ UNCHANGED <<run, hub, app, tree_io, filter_patterns, filter_errors, file_path, matched, binary_io, shutdown_io>>

\* _run_conversion: matches_any_pattern(f.path, path_patterns), also called
\* with an empty list as the tests do.
MatchesAnyPattern ==
    /\ path_patterns.kind = "return"
    /\ matched.kind = "none"
    /\ \E path \in FilterPaths :
          /\ file_path' = path
          /\ matched' = Value(matches_any_pattern(path, path_patterns.value))
    /\ UNCHANGED <<run, hub, app, tree_io, filter_patterns, filter_errors, path_patterns, binary_io, shutdown_io>>

NextFilter ==
    \/ ValidatePatterns
    \/ CompilePatterns
    \/ MatchesAnyPattern

SpecFilter == InitFilter /\ [][NextFilter]_vars


(***************************************************************************)
(* file_filter.py: is_binary_by_extension called on its own.               *)
(***************************************************************************)
\* str.upper(), one character at a time.
UpperChar(c) ==
    IF \E i \in DOMAIN LowerCase : LowerCase[i] = c
    THEN UpperCase[CHOOSE i \in DOMAIN LowerCase : LowerCase[i] = c]
    ELSE c

Upper(s) == [i \in DOMAIN s |-> UpperChar(s[i])]

\* The most directories in front of a file name.
MaxDirs == 2

\* Directory prefixes: up to MaxDirs names, with or without a dot.
RECURSIVE DirPrefixes(_)
DirPrefixes(n) ==
    IF n = 0 THEN {<<>>}
    ELSE DirPrefixes(n - 1)
            \cup {d \o rest : d \in {<<"d", "/">>, <<"d", ".", "e", "/">>},
                              rest \in {q \in DirPrefixes(n - 1) : Len(q) \div 2 >= n - 1}}

\* Endings of file names: every listed extension as listed, in lower case and
\* in upper case, two text extensions, two dots, no dot.
Endings ==
    LET listed == BINARY_EXTENSIONS \cup {<<".", "p", "y">>, <<".", "t", "x", "t">>, <<".", "t", "a", "r", ".", "g", "z">>, <<".", "p", "n", "g", ".", "t", "x", "t">>, <<>>}
    IN  listed \cup {Lower(e) : e \in listed} \cup {Upper(e) : e \in listed}

BinaryPaths == {d \o stem \o e : d \in DirPrefixes(MaxDirs), stem \in {<<>>, <<"a">>}, e \in Endings}

InitBinary ==
    /\ ext_path \in BinaryPaths
    /\ ext_binary = NotCalled
    /\ TreeIdle
    /\ FilterIdle
    /\ ShutdownIdle
    /\ NothingElse

\* is_binary_by_extension(path)
IsBinaryByExtension ==
    /\ ext_binary.kind = "none"
    /\ ext_binary' = Value(is_binary_by_extension(ext_path))
    /\ UNCHANGED <<run, hub, app, tree_io, filter_io, ext_path, shutdown_io>>

NextBinary == IsBinaryByExtension

SpecBinary == InitBinary /\ [][NextBinary]_vars


(***************************************************************************)
(* _run_conversion from the fetch loop on: fetch_all_files pulled to its   *)
(* end, then render_markdown on the same list.                             *)
(***************************************************************************)
\* The texts of the fetch loop as sequences of characters.
KnownTexts ==
    {<<"f">> \o DigitsOf(i) \o <<".", "p", "y">> : i \in 1..(MaxFiles + 1)} \cup {<<"x", " ", "=", " ", "1">>, <<>>}

\* The characters of a path or a content of the fetch loop.
Chars(s) == CHOOSE t \in KnownTexts : Str(t) = s

\* A list whose entries without content show an empty text, as
\* `entry.content or ""` would if the renderer kept them.
ContentsNoneAsEmpty == [i \in DOMAIN files |-> IF content[i] = NoContent THEN <<>> ELSE Chars(content[i])]

\* f.content of the entries of `files`: None, or the text stored.
Contents == [i \in DOMAIN files |-> IF content[i] = NoContent THEN Absent ELSE Chars(content[i])]

\* `markdown_output = render_markdown(repo_display, files)` once the for loop
\* over fetch_all_files has ended without an exception.
RenderFetched ==
    /\ pc = "done"
    /\ op = "none"
    /\ op' = "render_markdown"
    /\ markdown' = render_markdown(<<"o", "/", "r">>, [i \in DOMAIN files |-> [files[i] EXCEPT !.path = Chars(@)]], Contents)
    /\ UNCHANGED <<run, branch, gets, result, url, repo_info, lib>>

\* The providers _run_conversion constructs, each with a fresh list; no size
\* limit or a limit of one byte, and files below, at and above that limit.
InitConvert ==
    /\ Init
    /\ provider \in Overrides
    /\ max_file_size \in {0, 1}
    /\ \A i \in DOMAIN files : files[i].size \in {0, 1, MaxSize}

NextConvert == Next \/ RenderFetched

SpecConvert == InitConvert /\ [][NextConvert]_vars


(***************************************************************************)
(* app.py: the shutdown routes and the heartbeat watchdog.  Time is counted *)
(* in whole seconds; a thread that sleeps wakes at the second it asked for. *)
(* _kill's half second of sleep before the signal is not counted.          *)
(***************************************************************************)
\* The seconds of a run of the server that are explored.
MaxTime == 13

\* The script runs (page loads and re-runs, of any session) explored.
MaxRuns == 2

\* The /_heartbeat requests explored.
MaxHeartbeats == 3

\* `while time.time() - last_heartbeat < 1`
FreshSeconds == 1

\* `time.sleep(3)` of the first loop of _watchdog.
WaitSleep == 3

\* `time.sleep(5)` of the second loop of _watchdog.
WatchSleep == 5

\* `if time.time() - last_heartbeat > 10`
StaleSeconds == 10

\* The calls of _register_shutdown_route that added the rules to the router
\* and started a watchdog thread, in the order of the calls.
Routed == {k \in DOMAIN watchdog : watchdog[k].pc # "unstarted"}

\* The call whose HeartbeatHandler answers /_heartbeat: the router takes the
\* first rule that matches.
Handler == CHOOSE k \in Routed : \A j \in Routed : k <= j

\* The server has started and no page has been run.
InitShutdown ==
    /\ ShutdownIdle
    /\ TreeIdle
    /\ FilterIdle
    /\ BinaryIdle
    /\ NothingElse

\* A script thread runs main() and reaches _register_shutdown_route.
PageRun ==
    /\ process = "running"
    /\ Len(reruns) < MaxRuns
    /\ reruns' = Append(reruns, "if")
    /\ UNCHANGED <<run, hub, app, tree_io, filter_io, binary_io, clock, _SHUTDOWN_REGISTERED, last_heartbeat, watchdog, heard, process>>

\* `if _SHUTDOWN_REGISTERED: return`
TestRegistered(k) ==
    /\ process = "running"
    /\ reruns[k] = "if"
    /\ reruns' = [reruns EXCEPT ![k] = IF _SHUTDOWN_REGISTERED THEN "returned" ELSE "register"]
    /\ UNCHANGED <<run, hub, app, tree_io, filter_io, binary_io, clock, _SHUTDOWN_REGISTERED, last_heartbeat, watchdog, heard, process>>

\* The rest of _register_shutdown_route: the flag is set, last_heartbeat is
\* the time of the call, and, where the Tornado application is found, the
\* rules are added and the watchdog thread is started.
Register(k) ==
    /\ process = "running"
    /\ reruns[k] = "register"
    /\ _SHUTDOWN_REGISTERED' = TRUE
    /\ last_heartbeat' = Append(last_heartbeat, clock)
    /\ \E found \in BOOLEAN :
          watchdog' = Append(watchdog, IF found THEN [pc |-> "wait", wake |-> clock]
                                                ELSE [pc |-> "unstarted", wake |-> 0])
    /\ reruns' = [reruns EXCEPT ![k] = "returned"]
    /\ UNCHANGED <<run, hub, app, tree_io, filter_io, binary_io, clock, heard, process>>

\* HeartbeatHandler.get
Heartbeat ==
    /\ process = "running"
    /\ Routed # {}
    /\ heard < MaxHeartbeats
    /\ last_heartbeat' = [last_heartbeat EXCEPT ![Handler] = clock]
    /\ heard' = heard + 1
    /\ UNCHANGED <<run, hub, app, tree_io, filter_io, binary_io, clock, _SHUTDOWN_REGISTERED, reruns, watchdog, process>>

\* ShutdownHandler.post
Shutdown ==
    /\ process = "running"
    /\ Routed # {}
    /\ process' = "SIGTERM from /_shutdown"
    /\ UNCHANGED <<run, hub, app, tree_io, filter_io, binary_io, clock, _SHUTDOWN_REGISTERED, reruns, last_heartbeat, watchdog, heard>>

\* _watchdog of the k-th call, when its sleep has ended.
Watchdog(k) ==
    /\ process = "running"
    /\ watchdog[k].pc \in {"wait", "watch"}
    /\ watchdog[k].wake <= clock
    /\ IF watchdog[k].pc = "wait"
       THEN /\ watchdog' = [watchdog EXCEPT ![k] =
                               IF clock - last_heartbeat[k] < FreshSeconds
                               THEN [pc |-> "wait", wake |-> clock + WaitSleep]
                               ELSE [pc |-> "watch", wake |-> clock + WatchSleep]]
            /\ UNCHANGED process
       ELSE IF clock - last_heartbeat[k] > StaleSeconds
            THEN /\ watchdog' = [watchdog EXCEPT ![k] = [pc |-> "returned", wake |-> clock]]
                 /\ process' = "SIGTERM from _watchdog"
            ELSE /\ watchdog' = [watchdog EXCEPT ![k] = [pc |-> "watch", wake |-> clock + WatchSleep]]
                 /\ UNCHANGED process
    /\ UNCHANGED <<run, hub, app, tree_io, filter_io, binary_io, clock, _SHUTDOWN_REGISTERED, reruns, last_heartbeat, heard>>

\* A second passes; a watchdog whose sleep has ended runs first.
Tick ==
    /\ process = "running"
    /\ clock < MaxTime
    /\ \A k \in DOMAIN watchdog : watchdog[k].pc \in {"wait", "watch"} => watchdog[k].wake > clock
    /\ clock' = clock + 1
    /\ UNCHANGED <<run, hub, app, tree_io, filter_io, binary_io, _SHUTDOWN_REGISTERED, reruns, last_heartbeat, watchdog, heard, process>>

NextShutdown ==
    \/ PageRun
    \/ \E k \in DOMAIN reruns : TestRegistered(k)
    \/ \E k \in DOMAIN reruns : Register(k)
    \/ Heartbeat
    \/ Shutdown
    \/ \E k \in DOMAIN watchdog : Watchdog(k)
    \/ Tick

SpecShutdown == InitShutdown /\ [][NextShutdown]_vars


(***************************************************************************)
(* Vocabulary of the properties.                                           *)
(***************************************************************************)
N == Len(files)

\* The calls made for the i-th file, in order.
CallsFor(i) == SelectSeq(calls, LAMBDA c : c.file = i)

Failed(o) == o.kind # "return"

\* The generator has ended: by StopIteration or by an exception leaving it.
Ended == pc \in {"done", "raised"}

RateLimitSeen == \E j \in DOMAIN calls : calls[j].outcome.kind = "RateLimitError"

\* The files whose content this run has stored, among the first k.
Stored(k) == {i \in 1..k : content[i] # NoContent}

\* The counters as of the k-th snapshot (zero before the first).
SkippedAt(k) == IF k = 0 THEN 0 ELSE snapshots[k].skipped_binary

FetchedAt(k) == IF k = 0 THEN 0 ELSE snapshots[k].fetched_files

ErrorsAt(k) == IF k = 0 THEN <<>> ELSE snapshots[k].errors

\* The skip condition as the specification words it.
SkipCondition(i) ==
    files[i].is_binary \/ (max_file_size > 0 /\ files[i].size > max_file_size)

\* The processing of file i is over: it has its snapshot, or an exception
\* left the generator while it was the current file.
Processed(i) == i <= Len(snapshots) \/ (pc = "raised" /\ i = idx)

(***************************************************************************)
(* C1                                                                      *)
(***************************************************************************)
\* What C1 says of a run that has ended: N snapshots, the last with
\* fetched_files = N, and skipped_binary + successes + errors = N.
RunAccountsForAll ==
    /\ Len(snapshots) = N
    /\ FetchedAt(N) = N
    /\ SkippedAt(N) + Cardinality(Stored(N)) + Len(ErrorsAt(N)) = N

\* C1 as stated: for any list of N files, any max_file_size and any outcome
\* of each fetch attempt, a run of fetch_all_files of the GitHub or the Azure
\* DevOps provider yields exactly N snapshots, the last one has
\* fetched_files = N, and skipped_binary + successes + errors = N.
C1_AsStated == (provider \in Overrides /\ Ended) => RunAccountsForAll

\* C1 amended: the same, for the runs in which no fetch attempt raises
\* RateLimitError.
C1_NoRateLimit ==
    (provider \in Overrides /\ Ended /\ ~RateLimitSeen) => RunAccountsForAll

\* A GitHub run over two files that ended with one skip and one recorded error.
C1_Witness ==
    /\ provider = "github"
    /\ pc = "done"
    /\ ~RateLimitSeen
    /\ N = 2
    /\ SkippedAt(N) = 1
    /\ Len(ErrorsAt(N)) = 1

(***************************************************************************)
(* C2                                                                      *)
(***************************************************************************)
\* progress.errors once the processing of file i is over.
ErrorsAfter(i) == IF i <= Len(snapshots) THEN snapshots[i].errors ELSE progress.errors

\* What C2 says of the retry of file i, whose calls are cs.
RetryEffect(i, cs) ==
    /\ (Len(cs) = 2 /\ ~Failed(cs[2].outcome)) =>
            /\ content[i] = cs[2].outcome.value
            /\ ErrorsAfter(i) = ErrorsAt(i - 1)
    /\ (Len(cs) = 2 /\ Failed(cs[2].outcome)) =>
            /\ Len(ErrorsAfter(i)) = Len(ErrorsAt(i - 1)) + 1
            /\ SubSeq(ErrorsAfter(i), 1, Len(ErrorsAt(i - 1))) = ErrorsAt(i - 1)
            /\ content[i] = NoContent

\* C2 as stated: for every file that is not skipped, fetch_all_files (of the
\* two providers) calls fetch_file_content once, and a second time if and
\* only if the first call failed, never a third time; a successful retry is
\* stored in content and appends nothing to errors; a failed retry appends
\* exactly one string to errors and stores no content.
C2_AsStated ==
    provider \in Overrides =>
        \A i \in 1..N :
            LET cs == CallsFor(i)
            IN  /\ Len(cs) <= 2
                /\ (Processed(i) /\ ~SkipCondition(i)) =>
                        /\ Len(cs) >= 1
                        /\ (Len(cs) = 2) <=> Failed(cs[1].outcome)
                        /\ RetryEffect(i, cs)

\* C2 amended: the second call is made if and only if the first call failed
\* with an exception other than RateLimitError; the rest as stated.
C2_RetryOnce ==
    provider \in Overrides =>
        \A i \in 1..N :
            LET cs == CallsFor(i)
            IN  /\ Len(cs) <= 2
                /\ (Processed(i) /\ ~SkipCondition(i)) =>
                        /\ Len(cs) >= 1
                        /\ (Len(cs) = 2) <=>
                              (Failed(cs[1].outcome) /\ cs[1].outcome.kind # "RateLimitError")
                        /\ RetryEffect(i, cs)

\* The first file recovered on its retry, the second failed twice, the third
\* call of the run being the retry that stored the text.
C2_Witness ==
    /\ provider \in Overrides
    /\ N = 2
    /\ Len(snapshots) = 2
    /\ Len(CallsFor(1)) = 2
    /\ content[1] \in Texts
    /\ Len(CallsFor(2)) = 2
    /\ content[2] = NoContent
    /\ Len(progress.errors) = 1

(***************************************************************************)
(* C3                                                                      *)
(***************************************************************************)
\* C3: whenever a fetch_file_content call made by GitHubProvider.fetch_all_files
\* raises RateLimitError, on a first attempt or on a retry, the error leaves
\* fetch_all_files at once: that call is the last one made, the run has
\* raised, and errors holds no string for it.
C3_RateLimitPropagates ==
    provider = "github" =>
        \A j \in DOMAIN calls :
            calls[j].outcome.kind = "RateLimitError" =>
                /\ pc = "raised"
                /\ j = Len(calls)
                /\ Len(snapshots) = calls[j].file - 1
                /\ progress.errors = ErrorsAt(Len(snapshots))

(***************************************************************************)
(* C4                                                                      *)
(***************************************************************************)
\* C4: a file is skipped (skipped_binary grows by one at its snapshot) if and
\* only if is_binary, or max_file_size > 0 and size > max_file_size; a
\* skipped file adds one to skipped_binary and one to fetched_files, is
\* never passed to fetch_file_content, and keeps its content; a file that is
\* not skipped is passed to fetch_file_content.
C4_SkipRule ==
    \A k \in 1..N :
        /\ k <= Len(snapshots) =>
              LET d == SkippedAt(k) - SkippedAt(k - 1)
              IN  /\ d \in {0, 1}
                  /\ (d = 1) <=> SkipCondition(k)
                  /\ SkipCondition(k) => FetchedAt(k) = FetchedAt(k - 1) + 1
                  /\ ~SkipCondition(k) => Len(CallsFor(k)) >= 1
        /\ (k = idx /\ k > Len(snapshots)) => ~SkipCondition(k)
        /\ SkipCondition(k) => (Len(CallsFor(k)) = 0 /\ content[k] = NoContent)

\* With a positive limit: a non-binary file above the limit was skipped, and a
\* file of exactly the limit was fetched.
C4_Witness ==
    /\ N = 2
    /\ Len(snapshots) = 2
    /\ max_file_size > 0
    /\ ~files[1].is_binary /\ files[1].size > max_file_size
    /\ SkippedAt(1) = 1
    /\ ~files[2].is_binary /\ files[2].size = max_file_size
    /\ SkippedAt(2) = 1
    /\ Len(CallsFor(2)) >= 1

(***************************************************************************)
(* C5                                                                      *)
(***************************************************************************)
\* C5: snapshots come in input order and grow monotonically: the k-th
\* snapshot has current_file = the k-th file's path, fetched_files = k and
\* total_files = N, and skipped_binary and len(errors) are each the previous
\* snapshot's value or one more.
C5_InOrder ==
    /\ Len(snapshots) <= N
    /\ \A k \in 1..Len(snapshots) :
        /\ snapshots[k].current_file = files[k].path
        /\ snapshots[k].fetched_files = k
        /\ snapshots[k].total_files = N
        /\ SkippedAt(k) - SkippedAt(k - 1) \in {0, 1}
        /\ Len(ErrorsAt(k)) - Len(ErrorsAt(k - 1)) \in {0, 1}

\* Two snapshots: skipped_binary grew at the first, errors at the second.
C5_Witness ==
    /\ Len(snapshots) = 2
    /\ SkippedAt(1) = 1
    /\ SkippedAt(2) = 1
    /\ Len(ErrorsAt(1)) = 0
    /\ Len(ErrorsAt(2)) = 1

(***************************************************************************)
(* C6                                                                      *)
(***************************************************************************)
\* C6: the generator is pull-driven, one file in flight at a time: after the
\* caller's k-th pull the loop has taken at most k files, every
\* fetch_file_content call made is for one of the first k files (and for a
\* file right after the last snapshot), and the content of the files after
\* the k-th and the counters are as the first k files left them; while the
\* generator is suspended it has handled exactly k files. So a caller that
\* stops after k snapshots leaves files k+1..N without a request.
C6_PullDriven ==
    /\ idx <= pulls
    /\ Len(snapshots) <= pulls
    /\ \A j \in DOMAIN calls :
        /\ calls[j].file <= pulls
        /\ calls[j].file <= Len(snapshots) + 1
    /\ \A i \in 1..N : i > pulls => content[i] = NoContent
    /\ progress.fetched_files <= pulls
    /\ progress.skipped_binary <= pulls
    /\ Len(progress.errors) <= pulls
    /\ pc = "yielded" => (idx = pulls /\ Len(snapshots) = pulls)

\* Suspended after the first of two files, which was fetched; the second one
\* would be fetched on the next pull.
C6_Witness ==
    /\ pc = "yielded"
    /\ pulls = 1
    /\ N = 2
    /\ Len(CallsFor(1)) >= 1
    /\ ~SkipCondition(2)
    /\ Len(CallsFor(2)) = 0

(***************************************************************************)
(* C7                                                                      *)
(***************************************************************************)
\* C7: only a rate-limit signal leaves fetch_all_files: when the run has
\* raised, the last call raised RateLimitError; a run that returned has
\* yielded a snapshot for every input file, whatever failed before.
C7_FailuresIsolated ==
    /\ pc = "raised" =>
          (calls # <<>> /\ calls[Len(calls)].outcome.kind = "RateLimitError")
    /\ pc = "done" => Len(snapshots) = N

\* The first file failed both attempts with ordinary exceptions, the second
\* was then processed, and the run returned.
C7_Witness ==
    /\ pc = "done"
    /\ N = 2
    /\ Len(CallsFor(1)) = 2
    /\ CallsFor(1)[1].outcome.kind = "Exception"
    /\ CallsFor(1)[2].outcome.kind = "Exception"
    /\ Len(CallsFor(2)) >= 1
    /\ content[2] \in Texts

(***************************************************************************)
(* C8                                                                      *)
(***************************************************************************)
\* C8: at every snapshot fetched_files = skipped_binary + stored + len(errors),
\* and each processed file adds one to exactly one of the three; a file that
\* is both binary and above max_file_size adds exactly one to skipped_binary.
C8_Partition ==
    \A k \in 1..Len(snapshots) :
        LET s == SkippedAt(k) - SkippedAt(k - 1)
            e == Len(ErrorsAt(k)) - Len(ErrorsAt(k - 1))
            c == IF content[k] # NoContent THEN 1 ELSE 0
        IN  /\ FetchedAt(k) = SkippedAt(k) + Cardinality(Stored(k)) + Len(ErrorsAt(k))
            /\ s \in {0, 1}
            /\ e \in {0, 1}
            /\ s + e + c = 1
            /\ (files[k].is_binary /\ max_file_size > 0 /\ files[k].size > max_file_size)
                  => s = 1

\* A file that is binary and above the limit, then a file recorded as an error.
C8_Witness ==
    /\ Len(snapshots) = 2
    /\ files[1].is_binary
    /\ max_file_size > 0
    /\ files[1].size > max_file_size
    /\ Len(ErrorsAt(2)) = 1

(***************************************************************************)
(* C9                                                                      *)
(***************************************************************************)
\* Both attempts of file i were made and both failed.
FailedTwice(i) ==
    LET cs == CallsFor(i)
    IN  Len(cs) = 2 /\ Failed(cs[1].outcome) /\ Failed(cs[2].outcome)

\* The files with a snapshot whose two attempts both failed, in input order.
DoubleFailures ==
    SelectSeq([i \in 1..Len(snapshots) |-> i], FailedTwice)

\* C9: progress.errors holds exactly one string per file processed so far
\* whose fetch failed on both attempts, in processing order; the string is
\* the file's path, then ': ', then the message of the retry's failure.
C9_ErrorStrings ==
    provider \in Overrides =>
        LET df == DoubleFailures
        IN  /\ Len(progress.errors) = Len(df)
            /\ \A j \in DOMAIN df :
                  j <= Len(progress.errors) =>
                      progress.errors[j] =
                          files[df[j]].path \o ": " \o CallsFor(df[j])[2].outcome.value

\* Both files failed twice, the first with two different messages.
C9_Witness ==
    /\ provider \in Overrides
    /\ Len(progress.errors) = 2
    /\ CallsFor(1)[1].outcome.value # CallsFor(1)[2].outcome.value

(***************************************************************************)
(* C10                                                                     *)
(***************************************************************************)
\* The response says the quota is used up: X-RateLimit-Remaining is 0.
QuotaExhausted(resp) ==
    ~resp.failed /\ resp.remaining # Absent /\ IntOf(resp.remaining) = 0

\* X-RateLimit-Reset as an integer, 0 when the header is missing.
ResetOf(resp) == IF resp.reset = Absent THEN 0 ELSE IntOf(resp.reset)

RawRefused(g) == g.resp.failed \/ g.resp.status # 200

\* C11: fetch_file_content requests the raw-content endpoint first; the
\* contents API is requested, once and after it, exactly when the raw request
\* returned a status other than 200 or failed in transport; when the raw
\* request returned 200 the raw response's text is the result and the
\* contents API is not requested.
C11_RawFirst ==
    op = "fetch_file_content" =>
        /\ Len(gets) \in {1, 2}
        /\ gets[1].endpoint = "raw"
        /\ \A j \in 2..Len(gets) : gets[j].endpoint = "contents"
        /\ (Len(gets) = 2) <=> RawRefused(gets[1])
        /\ ~RawRefused(gets[1]) => result = Return(gets[1].resp.body.text, <<>>)

\* Both cases have happened in one state space; this state is the fallback
\* after a transport failure of the raw request, the contents API answering
\* with a payload that is not UTF-8.
C11_Witness ==
    /\ op = "fetch_file_content"
    /\ Len(gets) = 2
    /\ gets[1].resp.failed
    /\ gets[2].endpoint = "contents"
    /\ result.kind = "return"
    /\ result.text = "<U+FFFD>"

(***************************************************************************)
(* C12                                                                     *)
(***************************************************************************)
\* What get_default_branch makes of the repository document `body`.
ResolvedName(body) ==
    IF provider = "github" THEN body.default_branch ELSE DefaultBranchName(body)

\* The step is a call of list_files.
ListFilesCalled == op = "none" /\ op' = "list_files"

\* The requests of the operation that has just run include one for the
\* repository document, which is what get_default_branch asks for.
AskedDefaultBranch == \E j \in DOMAIN gets' : gets'[j].endpoint = "repo"

\* C12: list_files (GitHub and Azure DevOps) changes repo_info.branch only
\* when it was absent on entry: it then calls get_default_branch first and,
\* when that call returns, stores the name it returned; when a branch was
\* supplied get_default_branch is not called and the branch is unchanged.
\* No step of get_default_branch, list_files, fetch_file_content or
\* fetch_all_files changes another field of the RepoInfo, and none but
\* list_files changes the branch.
C12_BranchFrame ==
    [][/\ repo_info' = repo_info
       /\ branch' # branch => ListFilesCalled /\ branch = NoBranch
       /\ (ListFilesCalled /\ branch = NoBranch) =>
              /\ gets'[1].endpoint = "repo"
              /\ branch' = IF gets'[1].raised = "return"
                           THEN ResolvedName(gets'[1].resp.body)
                           ELSE NoBranch
       /\ (ListFilesCalled /\ branch # NoBranch) =>
              /\ ~AskedDefaultBranch
              /\ branch' = branch]_vars

\* The Azure DevOps list_files has resolved the absent branch to the name
\* under refs/heads/, and the items request then failed: the branch stays
\* stored.
C12_Witness ==
    /\ provider = "azure_devops"
    /\ op = "list_files"
    /\ Len(gets) = 2
    /\ gets[1].endpoint = "repo"
    /\ gets[1].resp.body.defaultBranch # Absent
    /\ branch = "trunk"
    /\ gets[2].raised = "AzureDevOpsError"
    /\ repo_info = AzureRepo

(***************************************************************************)
(* C13                                                                     *)
(***************************************************************************)
\* The position of the first tree request among the requests of list_files.
TreeAt == IF gets[1].endpoint = "tree" THEN 1 ELSE 2

\* list_files got a tree response that says it is truncated.
Truncated ==
    /\ op = "list_files"
    /\ Len(gets) >= TreeAt
    /\ gets[TreeAt].raised = "return"
    /\ gets[TreeAt].resp.body.truncated

\* What the request g for a subdirectory adds to the listing.
Contribution(g) == IF g.raised = "return" THEN Blobs(g.resp.body.tree) ELSE <<>>

\* The contributions of the requests from the j-th on, in order.
RECURSIVE ContributionsFrom(_)
ContributionsFrom(j) ==
    IF j > Len(gets) THEN <<>> ELSE Contribution(gets[j]) \o ContributionsFrom(j + 1)

\* C13: when the tree response is truncated, list_files returns a list
\* whatever subset of the subdirectory requests fail; every tree-typed item of
\* the initial response is requested, in order, also after a failed request;
\* the list is the blobs of the initial response followed by the blobs of
\* each subdirectory response that succeeded, a failed one adding nothing.
C13_PartialListing ==
    Truncated =>
        LET dirs == DirsToVisit(gets[TreeAt].resp.body.tree)
        IN  /\ result.kind = "return"
            /\ Len(gets) = TreeAt + Len(dirs)
            /\ \A i \in 1..Len(dirs) :
                  /\ gets[TreeAt + i].endpoint = "subtree"
                  /\ gets[TreeAt + i].at = dirs[i].sha
            /\ result.files = Blobs(gets[TreeAt].resp.body.tree)
                                  \o ContributionsFrom(TreeAt + 1)

\* Two subdirectories: the request for the first failed with a server error,
\* the one for the second succeeded and its blob is the whole listing.
C13_Witness ==
    /\ Truncated
    /\ Len(gets) = TreeAt + 2
    /\ gets[TreeAt + 1].raised = "HTTPError"
    /\ gets[TreeAt + 2].raised = "return"
    /\ Len(result.files) = 1
    /\ result.files[1].path = <<"m", ".", "p", "y">>

(***************************************************************************)
(* C14                                                                     *)
(***************************************************************************)
\* The items of every tree document that list_files received, in the order
\* received: the first tree response and the subdirectory responses that
\* _api_get accepted.
RECURSIVE TreeItemsFrom(_)
TreeItemsFrom(j) ==
    IF j > Len(gets)
    THEN <<>>
    ELSE (IF gets[j].endpoint \in {"tree", "subtree"} /\ gets[j].raised = "return"
          THEN gets[j].resp.body.tree
          ELSE <<>>) \o TreeItemsFrom(j + 1)

IsBlob(item) == item.type = "blob"

\* The items document that the Azure DevOps list_files received.
ItemsDocument == gets[Len(gets)].resp.body.value

\* s with its leading '/' characters removed is t.
RECURSIVE StripsTo(_, _)
StripsTo(s, t) ==
    IF s # <<>> /\ s[1] = "/" THEN StripsTo(Tail(s), t) ELSE s = t

\* An item that is a file: isFolder is not true, and a path remains once the
\* leading '/' are removed.
IsFileItem(item) ==
    /\ item.isFolder # "true"
    /\ item.path # Absent
    /\ \E k \in 1..Len(item.path) : item.path[k] # "/"

\* C14: list_files returns no entry for a directory.  GitHub: the entries
\* are, in response order, exactly the blob-typed items of the tree documents
\* received, with the item's path and size; tree-typed (and other) items give
\* no entry.  Azure DevOps: the entries are, in response order, exactly the
\* items whose isFolder is not true and whose path is not empty once its
\* leading '/' are removed, and the entry's path is the item's path with every
\* leading '/' removed.
C14_FilesOnly ==
    (op = "list_files" /\ result.kind = "return") =>
        IF provider = "github"
        THEN LET blobs == SelectSeq(TreeItemsFrom(1), IsBlob)
             IN  /\ Len(result.files) = Len(blobs)
                 /\ \A i \in DOMAIN blobs :
                       /\ result.files[i].path = blobs[i].path
                       /\ result.files[i].size = blobs[i].size
        ELSE LET kept == SelectSeq(ItemsDocument, IsFileItem)
             IN  /\ Len(result.files) = Len(kept)
                 /\ \A i \in DOMAIN kept :
                       /\ StripsTo(kept[i].path, result.files[i].path)
                       /\ result.files[i].path[1] # "/"
                       /\ result.files[i].size = kept[i].size

\* Azure DevOps: a folder and a file whose path begins with two '/'; only the
\* file is listed, without the slashes.
C14_Witness ==
    /\ provider = "azure_devops"
    /\ op = "list_files"
    /\ result.kind = "return"
    /\ Len(ItemsDocument) = 2
    /\ ItemsDocument[1].isFolder = "true"
    /\ ItemsDocument[2].path = <<"/", "/", "i", ".", "P", "N", "G">>
    /\ Len(result.files) = 1
    /\ result.files[1].path = <<"i", ".", "P", "N", "G">>

\* GitHub: a directory and a file in one tree document; only the file is
\* listed.
C14_WitnessGitHub ==
    /\ provider = "github"
    /\ op = "list_files"
    /\ result.kind = "return"
    /\ \E j \in DOMAIN gets :
          /\ gets[j].endpoint = "tree"
          /\ Len(gets[j].resp.body.tree) = 2
          /\ ~gets[j].resp.body.truncated
          /\ gets[j].resp.body.tree[1].type = "tree"
          /\ gets[j].resp.body.tree[2].type = "blob"
    /\ Len(result.files) = 1

(***************************************************************************)
(* C15                                                                     *)
(***************************************************************************)
\* C15: in the Azure DevOps list_files the is_binary of an entry is the
\* item's contentMetadata.isBinary flag whenever the flag is present, true or
\* false, and the extension-based result only when the flag is absent: an
\* item reported as isBinary false is not marked binary even when its
\* extension is in the binary set.
C15_FlagPreferred ==
    (provider = "azure_devops" /\ op = "list_files" /\ result.kind = "return") =>
        LET kept == SelectSeq(ItemsDocument, IsFileItem)
        IN  \A i \in DOMAIN kept :
                result.files[i].is_binary =
                    IF kept[i].isBinary = "absent"
                    THEN is_binary_by_extension(result.files[i].path)
                    ELSE kept[i].isBinary = "true"

(***************************************************************************)
(* C16                                                                     *)
(***************************************************************************)
\* The segments of the URL's path, its leading and trailing '/' removed.
SegmentsOf(u) == Split(StripSlashes(urlparse(u).path))

\* The URL is one the parser must refuse: empty, without scheme, with a
\* scheme other than http/https, with a host other than github.com,
\* dev.azure.com or *.visualstudio.com, or with path segments that do not fit
\* the host.
Refused(text) ==
    LET u == Strip(text)
        host == urlparse(u).hostname
        segs == SegmentsOf(u)
    IN  \/ u = <<>>
        \/ urlparse(u).scheme = <<>>
        \/ urlparse(u).scheme \notin {<<"h", "t", "t", "p">>, <<"h", "t", "t", "p", "s">>}
        \/ /\ host # <<"g", "i", "t", "h", "u", "b", ".", "c", "o", "m">>
           /\ host # <<"d", "e", "v", ".", "a", "z", "u", "r", "e", ".", "c", "o", "m">>
           /\ ~EndsWith(host, <<".", "v", "i", "s", "u", "a", "l", "s", "t", "u", "d", "i", "o", ".", "c", "o", "m">>)
        \/ host = <<"g", "i", "t", "h", "u", "b", ".", "c", "o", "m">> /\ Len(segs) < 2
        \/ host = <<"d", "e", "v", ".", "a", "z", "u", "r", "e", ".", "c", "o", "m">> /\ (Len(segs) < 4 \/ segs[3] # <<"_", "g", "i", "t">>)
        \/ EndsWith(host, <<".", "v", "i", "s", "u", "a", "l", "s", "t", "u", "d", "i", "o", ".", "c", "o", "m">>) /\ (Len(segs) < 3 \/ segs[2] # <<"_", "g", "i", "t">>)

\* C16: parse_repo_url fails with URLParseError and returns no RepoInfo
\* whenever the URL is empty or whitespace-only, has no scheme, has a scheme
\* other than http/https, has a host other than github.com, dev.azure.com or
\* *.visualstudio.com, or has path segments that do not match the host's
\* shape; for every other input it returns a RepoInfo and raises nothing.
C16_ParseOrFail ==
    op = "parse_repo_url" =>
        IF Refused(url)
        THEN result.kind = "URLParseError" /\ repo_info = NoRepoInfo
        ELSE result.kind = "return" /\ repo_info # NoRepoInfo

(***************************************************************************)
(* C17                                                                     *)
(***************************************************************************)
\* The parser returned a RepoInfo for a github.com URL.
ParsedGitHub ==
    op = "parse_repo_url" /\ result.kind = "return" /\ repo_info.provider = "github"

\* The path of the URL as text, its leading and trailing '/' removed.
PathText == Str(StripSlashes(urlparse(Strip(url)).path))

\* C17: for a github.com URL whose path is owner/repo/tree/s1/.../sn (n >= 1)
\* the branch is s1/.../sn, everything after "/tree/" with its slashes;
\* owner and repo are the first two segments, a trailing ".git" removed from
\* repo; when the third segment is not "tree" or nothing follows it the
\* branch is None.
C17_GitHubBranch ==
    ParsedGitHub =>
        LET segs == SegmentsOf(Strip(url))
            second == Str(segs[2])
        IN  /\ repo_info.owner = Str(segs[1])
            /\ IF EndsWith(segs[2], <<".", "g", "i", "t">>)
               THEN second = repo_info.repo \o ".git"
               ELSE second = repo_info.repo
            /\ IF Len(segs) >= 4 /\ segs[3] = <<"t", "r", "e", "e">>
               THEN /\ branch # NoBranch
                    /\ PathText = Str(segs[1]) \o "/" \o second \o "/tree/" \o branch
               ELSE branch = NoBranch

\* A branch of two segments after a repo written with ".git".
C17_Witness ==
    /\ ParsedGitHub
    /\ url = <<"h", "t", "t", "p", "s", ":", "/", "/", "g", "i", "t", "h", "u", "b", ".", "c", "o", "m", "/", "o", "/", "r", ".", "g", "i", "t", "/", "t", "r", "e", "e", "/", "a", "/", "t", "r", "e", "e">>
    /\ repo_info.owner = "o"
    /\ repo_info.repo = "r"
    /\ branch = "a/tree"

(***************************************************************************)
(* C18                                                                     *)
(***************************************************************************)
\* The parser returned a RepoInfo for a dev.azure.com or *.visualstudio.com
\* URL.
ParsedAzure ==
    op = "parse_repo_url" /\ result.kind = "return" /\ repo_info.provider = "azure_devops"

\* The text that follows the first "version=GB" of the query up to, and not
\* including, the next '&' or the end; empty when the query has no
\* "version=GB" or nothing follows it.
VersionValue ==
    LET query == urlparse(Strip(url)).query
        i == FindSub(query, <<"v", "e", "r", "s", "i", "o", "n", "=", "G", "B">>)
        rest == SubSeq(query, i + 10, Len(query))
    IN  IF i = 0 THEN <<>> ELSE SubSeq(rest, 1, FindAny(rest, {"&"}, 1) - 1)

\* C18: for dev.azure.com and *.visualstudio.com URLs the branch is the text
\* that follows "version=GB" in the query string up to, and not including, the
\* next '&' or the end of the string, so it never contains '&'; when the
\* query has no such parameter or nothing follows "GB" the branch is None,
\* never an empty string.
C18_AzureBranch ==
    ParsedAzure =>
        /\ branch # ""
        /\ branch = IF VersionValue = <<>> THEN NoBranch ELSE Str(VersionValue)

(***************************************************************************)
(* C19                                                                     *)
(***************************************************************************)
\* The i-th input file is one the document must show: not binary, content
\* not None.
Included(i) == ~files[i].is_binary /\ content[i] # Absent

\* The positions of the included files, in input order.
IncludedFiles == SelectSeq([i \in DOMAIN files |-> i], Included)

\* The H3 heading lines of the document, in order.
Headings ==
    SelectSeq(markdown, LAMBDA line : Len(line) >= 5 /\ SubSeq(line, 1, 5) = <<"#", "#", "#", " ", "'">>)

\* The lines between the two fences of the File Structure block.
TreeBlock ==
    LET close == CHOOSE k \in 6..Len(markdown) :
                     markdown[k] = <<"'", "'", "'">> /\ \A j \in 6..(k - 1) : markdown[j] # <<"'", "'", "'">>
    IN  SubSeq(markdown, 6, close - 1)

\* The name on a tree line: what follows the indentation and the connector.
NameOn(line) == SubSeq(line, FindAny(line, Letters \cup {"."}, 1), Len(line))

\* The depth of a tree line: indentation and connector take 4 characters a
\* level.
DepthOf(line) == (Len(line) - Len(NameOn(line))) \div 4

\* The full path of the entry on the k-th line of the tree block: the names
\* of the directories above it, then its name.
RECURSIVE FullPathAt(_)
FullPathAt(k) ==
    LET line == TreeBlock[k]
        above == {j \in 1..(k - 1) : DepthOf(TreeBlock[j]) = DepthOf(line) - 1}
    IN  IF DepthOf(line) = 1
        THEN NameOn(line)
        ELSE FullPathAt(CHOOSE j \in above : \A h \in above : h <= j) \o NameOn(line)

\* The paths of the tree block's file entries: the lines that name no
\* directory.
TreeFiles ==
    {FullPathAt(k) : k \in {j \in DOMAIN TreeBlock :
                               TreeBlock[j] # <<>> /\ TreeBlock[j][Len(TreeBlock[j])] # "/"}}

\* The document has a section and a tree entry for exactly the included
\* files, the sections in input order.
SectionsForIncluded ==
    /\ Headings = [k \in DOMAIN IncludedFiles |->
                      <<"#", "#", "#", " ", "'">> \o files[IncludedFiles[k]].path \o <<"'">>]
    /\ TreeFiles = {files[IncludedFiles[k]].path : k \in DOMAIN IncludedFiles}

\* The path of the i-th file is in no line of the document.
AppearsNowhere(i) == \A k \in DOMAIN markdown : FindSub(markdown[k], files[i].path) = 0

AllPaths == [k \in DOMAIN IncludedFiles |-> files[IncludedFiles[k]].path]

\* The lists with the same paths as `paths` in any order, each once or more,
\* of at most one path more.
Rearrangements(paths) ==
    LET S == {paths[k] : k \in DOMAIN paths}
    IN  {q \in UNION {[1..n -> S] : n \in Cardinality(S)..(Len(paths) + 1)} :
            {q[k] : k \in DOMAIN q} = S}

\* p begins with the text `start`.
StartsWith(p, start) == Len(p) >= Len(start) /\ SubSeq(p, 1, Len(start)) = start

\* The least, as str, of the paths below the entry on the k-th tree line (the
\* entry's own path when it is a file).
SmallestBelow(k) ==
    LET below == {AllPaths[i] : i \in {h \in DOMAIN AllPaths :
                                          StartsWith(AllPaths[h], FullPathAt(k))}}
    IN  CHOOSE p \in below : \A r \in below : r = p \/ StrLess(p, r)

\* The text of the directory that holds the entry on the k-th tree line.
ParentOf(k) ==
    SubSeq(FullPathAt(k), 1, Len(FullPathAt(k)) - Len(NameOn(TreeBlock[k])))

Nodes ==
    UNION {{SubSeq(Split(tree_paths[i]), 1, k) : k \in 1..Len(Split(tree_paths[i]))} :
              i \in DOMAIN tree_paths}

\* Node m is directly below node n.
ChildOf(m, n) == Len(m) = Len(n) + 1 /\ SubSeq(m, 1, Len(n)) = n

\* Where the connector of a tree line begins.
Mark(line) == FindAny(line, {"+", "^"}, 1)

\* How many levels a tree line is indented.
Level(line) == (Mark(line) - 1) \div 4

\* What a tree line shows after its connector.
Shown(line) == SubSeq(line, Mark(line) + 4, Len(line))

\* The node on the k-th line of the text: the node of the nearest line above
\* that is indented one level less, then the name shown, without the '/' of a
\* directory.
RECURSIVE NodeAt(_)
NodeAt(k) ==
    LET line == tree_lines[k]
        name == RemoveSuffix(Shown(line), <<"/">>)
        above == {j \in 1..(k - 1) : Level(tree_lines[j]) = Level(line) - 1}
    IN  IF Level(line) = 0 \/ above = {}
        THEN <<name>>
        ELSE Append(NodeAt(CHOOSE j \in above : \A h \in above : h <= j), name)

\* The k-th line is the last of its sibling group.
LastSibling(k) ==
    \A h \in (k + 1)..Len(tree_lines) :
        SubSeq(NodeAt(h), 1, Len(NodeAt(h)) - 1) # SubSeq(NodeAt(k), 1, Len(NodeAt(k)) - 1)

\* The line above the k-th that holds its ancestor of `depth` parts.
AncestorLine(k, depth) ==
    CHOOSE j \in 1..k : NodeAt(j) = SubSeq(NodeAt(k), 1, depth)

\* One line per node, a node's descendants right below it.
DepthFirst ==
    /\ Len(tree_lines) = Cardinality(Nodes)
    /\ {NodeAt(k) : k \in DOMAIN tree_lines} = Nodes
    /\ \A k \in DOMAIN tree_lines :
          /\ Len(NodeAt(k)) = Level(tree_lines[k]) + 1
          /\ Len(NodeAt(k)) > 1 =>
                \E j \in 1..(k - 1) :
                    /\ ChildOf(NodeAt(k), NodeAt(j))
                    /\ \A h \in j..k : SubSeq(NodeAt(h), 1, Len(NodeAt(j))) = NodeAt(j)

\* The connector, the indentation and the '/' of the k-th line.
LineShape(k) ==
    LET line == tree_lines[k]
    IN  /\ Mark(line) + 3 <= Len(line)
        /\ SubSeq(line, Mark(line), Mark(line) + 3) =
              (IF LastSibling(k) THEN <<"^", "=", "=", " ">> ELSE <<"+", "=", "=", " ">>)
        /\ \A d \in 1..Level(line) :
              SubSeq(line, 4 * d - 3, 4 * d) =
                  (IF LastSibling(AncestorLine(k, d)) THEN <<" ", " ", " ", " ">> ELSE <<"|", " ", " ", " ">>)
        /\ EndsWith(Shown(line), <<"/">>) <=> \E m \in Nodes : ChildOf(m, NodeAt(k))

\* C21: build_tree renders exactly one line per distinct node of the path
\* prefix tree, depth-first; in each sibling group exactly the last sibling
\* has the connector U+2514 and every other U+251C; the lines of a node's
\* descendants are prefixed with four spaces if the node is a last sibling and
\* with U+2502 and three spaces otherwise; a node with children ends with '/'
\* and a leaf does not; the text has no trailing newline and is empty for an
\* empty input.
C21_TreeShape ==
    op = "build_tree" =>
        IF tree_paths = <<>>
        THEN tree_lines = << <<>> >>
        ELSE /\ DepthFirst
             /\ \A k \in DOMAIN tree_lines : LineShape(k)

\* a/b/c, a/d and e: the directory a/ is not the last of its group and what
\* is below it is indented with the bar; b/ is not the last below a/, c is
\* indented with two bars.
C21_Witness ==
    /\ op = "build_tree"
    /\ tree_paths = <<<<"a", "/", "b", "/", "c">>, <<"a", "/", "d">>, <<"e">>>>
    /\ tree_lines = <<<<"+", "=", "=", " ", "a", "/">>, <<"|", " ", " ", " ", "+", "=", "=", " ", "b", "/">>, <<"|", " ", " ", " ", "|", " ", " ", " ", "^", "=", "=", " ", "c">>, <<"|", " ", " ", " ", "^", "=", "=", " ", "d">>, <<"^", "=", "=", " ", "e">>>>
(***************************************************************************)
(* C22                                                                     *)
(***************************************************************************)
\* validate_patterns reported an error for the pattern p.
Reported(p) ==
    \E k \in DOMAIN filter_errors.value :
        StartsWith(filter_errors.value[k], <<"'">> \o p \o <<"'", " ", "-", " ">>)

\* Both functions returned, and what they returned fits together: a pattern
\* is missing from the compiled list exactly when an error is reported for
\* it, and the compiled ones are in the order of the patterns.
Agree ==
    LET kept == SelectSeq(filter_patterns, LAMBDA p : ~Reported(p))
    IN  /\ Len(path_patterns.value) + Len(filter_errors.value) = Len(filter_patterns)
        /\ path_patterns.value = [k \in DOMAIN kept |-> re_compile(kept[k]).items]

\* C22: for every list of pattern strings P, compile_patterns(P) never raises
\* and validate_patterns(P) never raises, and they agree: a pattern is dropped
\* by compile_patterns if and only if validate_patterns reports an error for
\* it, so len(compile_patterns(P)) + len(validate_patterns(P)) == len(P), and
\* the compiled matchers keep the relative order of the valid patterns.
C22_NeverRaiseAndAgree ==
    /\ filter_errors.kind # "raise"
    /\ path_patterns.kind # "raise"
    /\ (filter_errors.kind = "return" /\ path_patterns.kind = "return") => Agree
(***************************************************************************)
(* C23                                                                     *)
(***************************************************************************)
\* The k-th compiled pattern matches somewhere in the path filtered.
MatchesSomewhere(k) == re_search(path_patterns.value[k], file_path)

\* The compiled forms of the patterns that could be added to the list.
MorePatterns ==
    {re_compile(q).items : q \in {p \in FilterPatterns : re_compile(p).kind = "compiled"}}

\* C23: matches_any_pattern(path, compiled) is true for every path when
\* compiled is empty; otherwise it is true if and only if at least one
\* compiled pattern matches somewhere inside the path (search, not full
\* match); adding a pattern to a non-empty list can only turn a result from
\* false to true.
C23_SearchSemantics ==
    matched.kind = "return" =>
        IF path_patterns.value = <<>>
        THEN matched.value = TRUE
        ELSE /\ matched.value <=> \E k \in DOMAIN path_patterns.value : MatchesSomewhere(k)
             /\ \A more \in MorePatterns :
                   matched.value =>
                       /\ matches_any_pattern(file_path, Append(path_patterns.value, more))
                       /\ matches_any_pattern(file_path, <<more>> \o path_patterns.value)

\* src/main.py against [bad and src/: the first pattern is dropped, the
\* second matches the beginning of the path only, and the path passes.
C23_Witness ==
    /\ matched = Value(TRUE)
    /\ file_path = <<"s", "r", "c", "/", "m", "a", "i", "n", ".", "p", "y">>
    /\ filter_patterns = <<<<"[", "b", "a", "d">>, <<"s", "r", "c", "/">>>>
    /\ Len(path_patterns.value) = 1
    /\ ~re_search(re_compile(<<"^", "s", "r", "c", "/", "$">>).items, file_path)
(***************************************************************************)
(* C24                                                                     *)
(***************************************************************************)
\* What the path has from its last '.' on; nothing when it has no '.'.
LastSuffix(path) ==
    IF RFindDot(path) = 0 THEN <<>> ELSE SubSeq(path, RFindDot(path), Len(path))

\* The suffix equals a listed extension, letter case ignored.
ListedIgnoringCase(suffix) ==
    \E e \in BINARY_EXTENSIONS : Lower(e) = Lower(suffix)

\* C24: is_binary_by_extension(path) is true if and only if the path contains
\* a '.' and the suffix starting at its last '.' equals, ignoring letter case,
\* some member of BINARY_EXTENSIONS; so every listed extension, .lock and
\* .DS_Store included, is detected in any letter casing, and the result
\* depends on nothing but that suffix.
C24_SuffixIgnoringCase ==
    ext_binary.kind = "return" =>
        /\ ext_binary.value <=>
              (RFindDot(ext_path) # 0 /\ ListedIgnoringCase(LastSuffix(ext_path)))
        /\ \A other \in BinaryPaths :
              LastSuffix(other) = LastSuffix(ext_path) /\ (RFindDot(other) = 0 <=> RFindDot(ext_path) = 0)
                  => is_binary_by_extension(other) = ext_binary.value
(***************************************************************************)
(* C25                                                                     *)
(***************************************************************************)
\* The outcomes of fetch_file_content without the rate-limit signal.
PlainOutcomes == {Returned(t) : t \in Texts} \cup {Raised(m) : m \in Messages}

\* The files of this run whose first call failed and was not followed by a
\* second: the next outcome of the sequence was not asked for.
NotRetried == {i \in 1..N : Len(CallsFor(i)) = 1 /\ Failed(CallsFor(i)[1].outcome)}

\* The algorithm with its single retry, from the i-th file on, on the
\* outcomes this run has met; `rest` gives the outcome a second call would
\* have met where this run made none.
RECURSIVE WithRetry(_, _, _, _, _)
WithRetry(i, p, cont, snaps, rest) ==
    IF i > N
    THEN [snapshots |-> snaps, content |-> cont, errors |-> p.errors]
    ELSE LET cur == WithCurrent(p, files[i])
             cs == CallsFor(i)
             last == IF ~Failed(cs[1].outcome) THEN cs[1].outcome
                     ELSE IF Len(cs) = 2 THEN cs[2].outcome
                     ELSE rest[i]
             q == IF SkipCondition(i) THEN CountSkipped(cur)
                  ELSE IF Failed(last) THEN CountFetched(RecordError(cur, files[i], last))
                  ELSE CountFetched(cur)
         IN  WithRetry(i + 1, q,
                       IF ~SkipCondition(i) /\ ~Failed(last)
                       THEN [cont EXCEPT ![i] = last.value]
                       ELSE cont,
                       Append(snaps, q), rest)

\* The run did what the algorithm with its retry does on the same outcomes.
SameAsWithRetry ==
    \A rest \in [NotRetried -> PlainOutcomes] :
        WithRetry(1, FetchProgress(N), [i \in 1..N |-> NoContent], <<>>, rest)
            = [snapshots |-> snapshots, content |-> content, errors |-> progress.errors]

\* C25: the fetch_all_files of the base class and the overrides of the GitHub
\* and the Azure DevOps provider implement the same algorithm: on the same
\* file list, the same max_file_size and the same sequence of
\* fetch_file_content outcomes (no rate-limit signal) they yield the same
\* snapshots and leave the same contents and the same errors, the single
\* retry after a first failure included.
C25_SameAlgorithm ==
    (pc = "done" /\ ~RateLimitSeen) => SameAsWithRetry
(***************************************************************************)
(* C26                                                                     *)
(***************************************************************************)
\* C26: a rate-limit signal is fatal to listing as well: if any GET issued by
\* list_files of the GitHub provider, a per-subdirectory tree request of the
\* truncated-tree fallback included, returns X-RateLimit-Remaining 0,
\* list_files fails with RateLimitError instead of returning a (partial) file
\* list.
C26_RateLimitFatalToListing ==
    (op = "list_files" /\ \E j \in DOMAIN gets : QuotaExhausted(gets[j].resp))
        => result.kind = "RateLimitError"
(***************************************************************************)
(* C27                                                                     *)
(***************************************************************************)
\* The entries that the request for the i-th directory of the truncated tree
\* added begin with that directory's path.
UnderItsDirectory(i) ==
    LET dir == DirsToVisit(gets[TreeAt].resp.body.tree)[i]
        added == Contribution(gets[TreeAt + i])
    IN  \A k \in DOMAIN added : StartsWith(added[k].path, dir.path \o <<"/">>)

\* C27: every FileEntry returned by list_files of the GitHub provider, in the
\* normal and in the truncated-tree fallback path alike, carries the file's
\* path relative to the repository root (a blob found inside subdirectory d
\* has a path beginning with 'd/'), so each regular file of the repository
\* appears at most once and two different files never share a path.
C27_RootRelativePaths ==
    (op = "list_files" /\ result.kind = "return") =>
        /\ Truncated =>
              \A i \in 1..(Len(gets) - TreeAt) : UnderItsDirectory(i)
        /\ \A i, j \in DOMAIN result.files :
              i # j => result.files[i].path # result.files[j].path
(***************************************************************************)
(* C28                                                                     *)
(***************************************************************************)
\* The calls for the i-th file that returned a text.
Successes(i) == SelectSeq(CallsFor(i), LAMBDA c : ~Failed(c.outcome))

\* The i-th file is one the document must show: not binary, not skipped for
\* its size, and one of its fetch attempts succeeded.
Documented(i) ==
    /\ ~files[i].is_binary
    /\ ~(max_file_size > 0 /\ files[i].size > max_file_size)
    /\ Successes(i) # <<>>

DocumentedFiles == SelectSeq([i \in DOMAIN files |-> i], Documented)

\* The i-th file is recorded in progress.errors.
InErrors(i) ==
    \E k \in DOMAIN progress.errors :
        \E m \in Messages \cup {RateLimitMessage} :
            progress.errors[k] = FormatError(files[i].path, m)

\* The line of the k-th H3 heading of the document.
HeadingLine(k) ==
    CHOOSE n \in DOMAIN markdown :
        /\ markdown[n] = Headings[k]
        /\ Cardinality({j \in 1..n : Len(markdown[j]) >= 5
                                     /\ SubSeq(markdown[j], 1, 5) = SubSeq(Headings[k], 1, 5)}) = k

C29_NoEmptyNames ==
    op = "parse_repo_url" =>
        /\ result.kind = "return" =>
              /\ repo_info.owner # ""
              /\ repo_info.repo # ""
              /\ repo_info.project # ""
        /\ url \in EmptyNameUrls \ {<<"h", "t", "t", "p", "s", ":", "/", "/", "g", "i", "t", "h", "u", "b", ".", "c", "o", "m", "/", "o", "/", "r", ".", "g", "i", "t", ".", "g", "i", "t">>, <<"h", "t", "t", "p", "s", ":", "/", "/", "d", "e", "v", ".", "a", "z", "u", "r", "e", ".", "c", "o", "m", "/", "o", "/", "p", "/", "_", "g", "i", "t", "/", ".", "g", "i", "t">>} =>
              result.kind = "URLParseError"
(***************************************************************************)
(* C30                                                                     *)
(***************************************************************************)
\* C30: the watchdog thread started by _register_shutdown_route never
\* terminates the process before at least one /_heartbeat request has been
\* received; after the first heartbeat it terminates the process only when
\* no heartbeat has arrived for more than 10 seconds; and the routes and the
\* watchdog are registered at most once per process however many times the
\* page is re-run.
C30_WatchdogAfterFirstHeartbeat ==
    /\ process = "SIGTERM from _watchdog" =>
          /\ heard >= 1
          /\ clock - last_heartbeat[Handler] > StaleSeconds
    /\ Cardinality(Routed) <= 1

====
